---- MODULE Spec2Model ----
(***************************************************************************)
(* A model of the RAMCloud master storage engine (src/src/MasterServer.cc):*)
(* the client operations create/read/write/remove over the tablet list,    *)
(* the Table counters, the object hash table and the log; the reject-rule  *)
(* check; the replay of filtered segments during recovery; and the         *)
(* recovery driver with its SegmentLocatorChooser.                         *)
(***************************************************************************)
EXTENDS Integers, Sequences, FiniteSets, TLC

\* ------------------------------------------------------------ bounds
\* Largest number of segments a recovery is asked to fetch.
MaxSegments == 5
\* Largest object id of the model: stands for ~0UL, the top of the key space.
MaxObjectId == 3
\* The serving operations stop appending once the log holds this many entries.
MaxLog == 5
\* Largest number of slots of a server list.
MaxServers == 3
\* Largest number of start and halt calls made on a BackupFailureMonitor.
MaxCalls == 6
\* Largest givenVersion / currentVersion explored for the reject rules.
MaxRuleVersion == 3
\* Scaled range of a uint32_t (table ids of the serving model stay below it).
Uint32Span == 4

\* ------------------------------------------------------------ constants
VERSION_NONEXISTENT == 0
NULL == 0

VARIABLES
    tablets,      \* MasterServer::tablets, a list of tablets (user_data = Table*)
    tables,       \* the heap of Table objects, indexed by Table*
    objectMap,    \* MasterServer::objectMap: <<tableId, id>> -> log reference
    log,          \* MasterServer::log: the entries appended so far
    lastOp,       \* the request being served and its response; op = "none"
                  \*   once the reply is sent and the server waits again
    everMax,      \* per key: largest version an accepted create, write or
                  \*   remove returned (any object stored under it had)
    removedMax,   \* per key: largest version an accepted remove removed
    dropped,      \* per table id: a Table of that id was deleted at some time
    written,      \* per key: the data and version of the last accepted
                  \*   write or create, until a remove is accepted
    rj,           \* rejectOperation's arguments and outcome
    tombstoneMap, \* recover's tombstoneMap: <<tableId, id>> -> heap address
    tombHeap,     \* the xmalloc'ed recovery tombstones, indexed by address
    segment,      \* the filtered records being replayed, in arrival order
    segIt,        \* recoverSegment's iterator i: the next record's position
    replayStart,  \* the object index and the log the replay started with
    thrown,       \* what ended the recovery: "none", "assert" or an exception
    backups,      \* recover's argument: the list of backups with segment ids
    chooser,      \* recover's SegmentLocatorChooser: [map, ids]
    segIdsIt,     \* recover's segIdsIt: position in chooser.ids
    tasks,        \* recover's tasks[4]
    activeSegments, \* recover's counter of the same name
    recoverPc,    \* where recover is: "idle", "polling", "done" or "failed"
    fetched,      \* per segment id: how many getRecoveryData results were taken
    failure,      \* the fetch whose failure ended the recovery
    recoveryTablets, \* the RECOVER handler's recoveryTablets
    coordinator,  \* the tablet lists coordinator->tabletsRecovered was given
    synced,       \* how many log entries the last log.sync() made durable
    calls,        \* the Log and hash table calls of the operation just run,
                  \*   in the order the code makes them
    cleaned,      \* the ids of the segments the cleaner has freed
    cleaner,      \* the segment being cleaned and the next entry to evict
    got,          \* the outcome of the last SegmentLocatorChooser::get
    downed,       \* the markAsDown calls made so far, in order
    monitor,      \* the BackupFailureMonitor: running, thread (the Tub
                  \*   holds one), the threads started and not joined, and
                  \*   the start and halt calls made so far
    serverList,   \* AbstractServerList: the slots iget reads, trackers
                  \*   and isBeingDestroyed
    tracker,      \* the ServerTracker being registered: its queue of
                  \*   changes, the queue length at each fireCallback, whether
                  \*   its parent is set, whether registerTracker threw
    callers       \* the threads inside getSession: where each one is, the
                  \*   session it opened, the server id the verification
                  \*   got, and what it returned

vars == <<tablets, tables, objectMap, log, lastOp, everMax,
          removedMax, dropped, written, rj,
          tombstoneMap, tombHeap, segment, segIt, replayStart, thrown,
          backups, chooser, segIdsIt, tasks, activeSegments, recoverPc,
          fetched, failure, recoveryTablets, coordinator, synced,
          calls, cleaned, cleaner, got, downed, monitor, serverList, tracker, callers>>

replayVars == <<tombstoneMap, tombHeap, segment, segIt, replayStart, thrown>>
driverVars == <<backups, chooser, segIdsIt, tasks, activeSegments, recoverPc,
                fetched, failure>>
completionVars == <<recoveryTablets, coordinator, synced>>
cleanerVars == <<cleaned, cleaner>>
componentVars == <<got, downed, monitor, serverList, tracker, callers>>

masterVars == <<tablets, tables, objectMap, log>>
ghostVars == <<lastOp, everMax, removedMax, dropped, written>>

\* ------------------------------------------------------------ helpers
Max(a, b) == IF a >= b THEN a ELSE b
MinOf(S) == CHOOSE x \in S : \A y \in S : x <= y

TableIds == {1}
SegmentIds == 1..MaxSegments
ObjectIds == 0..MaxObjectId
Keys == TableIds \X ObjectIds
Data == {"a", "b"}
CreateData == {"a"}
NoData == ""

\* A uint64_t table id passed through a uint32_t parameter or map key.
Trunc32(tableId) == tableId % Uint32Span

\* ------------------------------------------------------------ RejectRules
RejectRulesOf(d, e, le, ne, g) ==
    [doesntExist |-> d, exists |-> e, versionLeGiven |-> le,
     versionNeGiven |-> ne, givenVersion |-> g]

NoRules == RejectRulesOf(FALSE, FALSE, FALSE, FALSE, 0)

AllRejectRules ==
    {RejectRulesOf(d, e, le, ne, g) :
        d \in BOOLEAN, e \in BOOLEAN, le \in BOOLEAN, ne \in BOOLEAN,
        g \in 0..MaxRuleVersion}

\* rejectOperation with the versionLeGiven test written as <.
rejectOperation_Less(rejectRules, version) ==
    IF version = VERSION_NONEXISTENT
    THEN IF rejectRules.doesntExist THEN "ObjectDoesntExist" ELSE "OK"
    ELSE IF rejectRules.exists THEN "ObjectExists"
    ELSE IF rejectRules.versionLeGiven /\ version < rejectRules.givenVersion
         THEN "WrongVersion"
    ELSE IF rejectRules.versionNeGiven /\ version # rejectRules.givenVersion
         THEN "WrongVersion"
    ELSE "OK"

\* rejectOperation without the exists rule.
rejectOperation_NoExists(rejectRules, version) ==
    IF version = VERSION_NONEXISTENT
    THEN IF rejectRules.doesntExist THEN "ObjectDoesntExist" ELSE "OK"
    ELSE IF rejectRules.versionLeGiven /\ version <= rejectRules.givenVersion
         THEN "WrongVersion"
    ELSE IF rejectRules.versionNeGiven /\ version # rejectRules.givenVersion
         THEN "WrongVersion"
    ELSE "OK"

\* MasterServer::rejectOperation: the exception thrown, or "OK".
rejectOperation(rejectRules, version) ==
    IF version = VERSION_NONEXISTENT
    THEN IF rejectRules.doesntExist THEN "ObjectDoesntExist" ELSE "OK"
    ELSE IF rejectRules.exists THEN "ObjectExists"
    ELSE IF rejectRules.versionLeGiven /\ version <= rejectRules.givenVersion
         THEN "WrongVersion"
    ELSE IF rejectRules.versionNeGiven /\ version # rejectRules.givenVersion
         THEN "WrongVersion"
    ELSE "OK"

\* ------------------------------------------------------------ Table
\* Table::Table(tableId)
NewTable(tableId) ==
    [tableId |-> tableId, nextKey |-> 1, nextVersion |-> 1, deleted |-> FALSE]

\* Table::AllocateVersion: the version handed out, and the Table afterwards.
AllocateVersion(table) ==
    [version |-> table.nextVersion,
     table |-> [table EXCEPT !.nextVersion = table.nextVersion + 1]]

\* Table::RaiseVersion
RaiseVersion(table, minimum) ==
    IF minimum > table.nextVersion
    THEN [table EXCEPT !.nextVersion = minimum]
    ELSE table

RECURSIVE SkipUsedKeys(_, _, _)
SkipUsedKeys(map, tableId, key) ==
    IF key <= MaxObjectId /\ <<tableId, key>> \in DOMAIN map
                          /\ map[<<tableId, key>>] # NULL
    THEN SkipUsedKeys(map, tableId, key + 1)
    ELSE key

\* Table::AllocateKey: skips the ids the hash table holds for this table.
AllocateKey(table, map) ==
    LET key == SkipUsedKeys(map, table.tableId, table.nextKey)
    IN [key |-> key, table |-> [table EXCEPT !.nextKey = key]]

\* ------------------------------------------------------------ Log
SegmentEntries == 2

\* Log::getSegmentId: the segment holding the entry at this reference.
getSegmentId(ref) == (ref - 1) \div SegmentEntries

ObjectEntry(tableId, id, version, data) ==
    [type |-> "OBJ", table |-> tableId, id |-> id, version |-> version,
     data |-> data, segmentId |-> 0, free |-> FALSE]

\* ObjectTombstone(segmentId, object)
ObjectTombstone(segmentId, o) ==
    [type |-> "OBJTOMB", table |-> o.table, id |-> o.id,
     version |-> o.version, data |-> NoData, segmentId |-> segmentId,
     free |-> FALSE]

\* Log::free
logFree(lg, ref) == [lg EXCEPT ![ref].free = TRUE]

\* Log::isSegmentLive: the segment was opened by an append and the cleaner
\* has not freed it (freed is the set of the segment ids it freed).
isSegmentLive(lg, freed, segmentId) ==
    /\ \E ref \in DOMAIN lg : getSegmentId(ref) = segmentId
    /\ segmentId \notin freed

\* One call an operation makes on the Log ("free", "append") or on the
\* object index ("replace", "remove"), with the reference it passes or gets.
Call(name, ref) == [call |-> name, ref |-> ref]

\* A log together with the calls made on it, in order.
TracedLog(lg) == [log |-> lg, calls |-> <<>>]

\* log.free(ref)
freeCall(L, ref) ==
    [log |-> logFree(L.log, ref), calls |-> Append(L.calls, Call("free", ref))]

\* log.append(type, entry, size): the new entry's reference is Len(log) + 1.
\* The entry is a fresh copy: no free was called on it.
appendCall(L, entry) ==
    [log |-> Append(L.log, [entry EXCEPT !.free = FALSE]),
     calls |-> Append(L.calls, Call("append", Len(L.log) + 1))]

\* ------------------------------------------------------------ MasterServer
Master == [tablets |-> tablets, tables |-> tables,
           objectMap |-> objectMap, log |-> log]

\* getTable taking the first tablet of the table whatever its object range.
getTable_AnyRange(tabs, tableId, objectId) ==
    LET hits == {i \in 1..Len(tabs) : tabs[i].table_id = Trunc32(tableId)}
    IN IF hits = {} THEN NULL ELSE tabs[MinOf(hits)].user_data

\* MasterServer::getTable: the Table* of the first tablet that holds the
\* object, NULL for TableDoesntExistException.
getTable(tabs, tableId, objectId) ==
    LET hits == {i \in 1..Len(tabs) :
                    /\ tabs[i].table_id = Trunc32(tableId)
                    /\ tabs[i].start_object_id <= objectId
                    /\ objectId <= tabs[i].end_object_id}
    IN IF hits = {} THEN NULL ELSE tabs[MinOf(hits)].user_data

\* storeData giving the new object the version of the one it overwrites.
storeDataVersion_Same(lg, oRef, table) ==
    IF oRef # NULL
    THEN [version |-> lg[oRef].version, table |-> table]
    ELSE AllocateVersion(table)

\* storeData, lines 1013-1016: the version of the new object and the Table
\* afterwards (oRef is the reference of the object being overwritten).
storeDataVersion(lg, oRef, table) ==
    IF oRef # NULL
    THEN [version |-> lg[oRef].version + 1, table |-> table]
    ELSE AllocateVersion(table)

\* storeData appending the new object before it frees the old one.
storeDataLog_AppendFirst(L, oRef, newObject) ==
    LET L1 == appendCall(L, newObject)
    IN IF oRef # NULL
       THEN appendCall(freeCall(L1, oRef),
                       ObjectTombstone(getSegmentId(oRef), L.log[oRef]))
       ELSE L1

\* storeData, lines 1025-1039: free the old object, append its tombstone,
\* append the new object.
storeDataLog(L, oRef, newObject) ==
    LET L1 == IF oRef # NULL
              THEN appendCall(freeCall(L, oRef),
                              ObjectTombstone(getSegmentId(oRef),
                                              L.log[oRef]))
              ELSE L
    IN appendCall(L1, newObject)

\* storeData publishing a new object only where the key held none.
storeDataPublish_Insert(map, tableId, id, objPtr) ==
    IF map[<<tableId, id>>] # NULL THEN map
    ELSE [map EXCEPT ![<<tableId, id>>] = objPtr]

\* storeData, line 1039: objectMap.replace(tableId, id, objPtr)
storeDataPublish(map, tableId, id, objPtr) ==
    [map EXCEPT ![<<tableId, id>>] = objPtr]

\* MasterServer::storeData: [S: the master afterwards, status, version,
\* calls: the Log and index calls made]
storeData(S, tableId, id, rejectRules, data) ==
    LET t == getTable(S.tablets, tableId, id)
        oRef == S.objectMap[<<tableId, id>>]
        version == IF oRef # NULL THEN S.log[oRef].version
                   ELSE VERSION_NONEXISTENT
        status == rejectOperation(rejectRules, version)
    IN IF t = NULL
       THEN [S |-> S, status |-> "TableDoesntExist", version |-> 0,
             calls |-> <<>>]
       ELSE IF status # "OK"
       THEN [S |-> S, status |-> status, version |-> version,
             calls |-> <<>>]
       ELSE LET nv == storeDataVersion(S.log, oRef, S.tables[t])
                newObject == ObjectEntry(tableId, id, nv.version, data)
                L == storeDataLog(TracedLog(S.log), oRef, newObject)
                objPtr == Len(L.log)
            IN [S |-> [S EXCEPT !.tables[t] = nv.table,
                                !.log = L.log,
                                !.objectMap = storeDataPublish(
                                    S.objectMap, tableId, id, objPtr)],
                status |-> "OK",
                version |-> L.log[objPtr].version,
                calls |-> Append(L.calls, Call("replace", objPtr))]

\* create taking the Table's next key whether or not the index holds it.
createOp_NoSkip(S, tableId, data) ==
    LET t == getTable(S.tablets, tableId, MaxObjectId)
    IN IF t = NULL
       THEN [S |-> S, status |-> "TableDoesntExist", version |-> 0, id |-> 0,
             calls |-> <<>>]
       ELSE LET key == S.tables[t].nextKey
                r == storeData(S, tableId, key,
                               [NoRules EXCEPT !.exists = TRUE], data)
            IN [S |-> r.S, status |-> r.status, version |-> r.version,
                id |-> key, calls |-> r.calls]

\* MasterServer::create: [S, status, version, id, calls]
createOp(S, tableId, data) ==
    LET t == getTable(S.tablets, tableId, MaxObjectId)
    IN IF t = NULL
       THEN [S |-> S, status |-> "TableDoesntExist", version |-> 0, id |-> 0,
             calls |-> <<>>]
       ELSE LET ak == AllocateKey(S.tables[t], S.objectMap)
                S1 == [S EXCEPT !.tables[t] = ak.table]
                r == storeData(S1, tableId, ak.key,
                               [NoRules EXCEPT !.exists = TRUE], data)
            IN [S |-> r.S, status |-> r.status, version |-> r.version,
                id |-> ak.key, calls |-> r.calls]

\* read answering with the first log entry instead of the indexed one.
readOp_First(S, tableId, id, rejectRules) ==
    LET t == getTable(S.tablets, tableId, id)
        oRef == S.objectMap[<<tableId, id>>]
    IN IF t = NULL
       THEN [S |-> S, status |-> "TableDoesntExist", version |-> 0,
             value |-> NoData]
       ELSE IF oRef = NULL
       THEN [S |-> S, status |-> "ObjectDoesntExist", version |-> 0,
             value |-> NoData]
       ELSE LET status == rejectOperation(rejectRules, S.log[1].version)
            IN [S |-> S, status |-> status, version |-> S.log[1].version,
                value |-> IF status = "OK" THEN S.log[1].data ELSE NoData]

\* read taking a version from the Table of the object it returns.
readOp_Touch(S, tableId, id, rejectRules) ==
    LET t == getTable(S.tablets, tableId, id)
        oRef == S.objectMap[<<tableId, id>>]
    IN IF t = NULL
       THEN [S |-> S, status |-> "TableDoesntExist", version |-> 0,
             value |-> NoData]
       ELSE IF oRef = NULL
       THEN [S |-> S, status |-> "ObjectDoesntExist", version |-> 0,
             value |-> NoData]
       ELSE LET status == rejectOperation(rejectRules, S.log[oRef].version)
            IN [S |-> [S EXCEPT !.tables[t] = AllocateVersion(@).table],
                status |-> status,
                version |-> S.log[oRef].version,
                value |-> IF status = "OK" THEN S.log[oRef].data ELSE NoData]

\* MasterServer::read: [S: the master afterwards, status, version, value]
readOp(S, tableId, id, rejectRules) ==
    LET t == getTable(S.tablets, tableId, id)
        oRef == S.objectMap[<<tableId, id>>]
    IN IF t = NULL
       THEN [S |-> S, status |-> "TableDoesntExist", version |-> 0,
             value |-> NoData]
       ELSE IF oRef = NULL
       THEN [S |-> S, status |-> "ObjectDoesntExist", version |-> 0,
             value |-> NoData]
       ELSE LET status == rejectOperation(rejectRules, S.log[oRef].version)
            IN [S |-> S, status |-> status,
                version |-> S.log[oRef].version,
                value |-> IF status = "OK" THEN S.log[oRef].data ELSE NoData]

\* remove raising the version floor to the removed version only.
removeRaise_Same(table, version) == RaiseVersion(table, version)

\* remove, line 689: the version floor after removing an object of this version
removeRaise(table, version) == RaiseVersion(table, version + 1)

\* remove refusing a key that holds no object.
removeOp_Strict(S, tableId, id, rejectRules, uninit) ==
    LET t == getTable(S.tablets, tableId, id)
        oRef == S.objectMap[<<tableId, id>>]
    IN IF t = NULL
       THEN [S |-> S, status |-> "TableDoesntExist", version |-> 0,
             calls |-> <<>>]
       ELSE IF oRef = NULL
       THEN [S |-> S, status |-> "ObjectDoesntExist", version |-> 0,
             calls |-> <<>>]
       ELSE LET o == S.log[oRef]
                status == rejectOperation(rejectRules, o.version)
            IN IF status # "OK"
               THEN [S |-> S, status |-> status, version |-> o.version,
                     calls |-> <<>>]
               ELSE LET L == appendCall(freeCall(TracedLog(S.log), oRef),
                                        ObjectTombstone(uninit, o))
                    IN [S |-> [S EXCEPT
                          !.tables[t] = removeRaise(S.tables[t], o.version),
                          !.log = L.log,
                          !.objectMap[<<tableId, id>>] = NULL],
                        status |-> "OK", version |-> o.version,
                        calls |-> Append(L.calls, Call("remove", oRef))]

\* MasterServer::remove: [S, status, version, calls]. uninit is the value the
\* uninitialized tomb.segmentId holds when it is read at line 691.
removeOp(S, tableId, id, rejectRules, uninit) ==
    LET t == getTable(S.tablets, tableId, id)
        oRef == S.objectMap[<<tableId, id>>]
    IN IF t = NULL
       THEN [S |-> S, status |-> "TableDoesntExist", version |-> 0,
             calls |-> <<>>]
       ELSE IF oRef = NULL
       THEN [S |-> S,
             status |-> rejectOperation(rejectRules, VERSION_NONEXISTENT),
             version |-> 0, calls |-> <<>>]
       ELSE LET o == S.log[oRef]
                status == rejectOperation(rejectRules, o.version)
            IN IF status # "OK"
               THEN [S |-> S, status |-> status, version |-> o.version,
                     calls |-> <<>>]
               ELSE LET L == appendCall(freeCall(TracedLog(S.log), oRef),
                                        ObjectTombstone(uninit, o))
                    IN [S |-> [S EXCEPT
                          !.tables[t] = removeRaise(S.tables[t], o.version),
                          !.log = L.log,
                          !.objectMap[<<tableId, id>>] = NULL],
                        status |-> "OK", version |-> o.version,
                        calls |-> Append(L.calls, Call("remove", oRef))]

\* setTablets, lines 714-721: the map from (uint32_t) table id to the Table*
\* of the tablets served so far; NULL where the map has no entry.
oldTables(tabs) ==
    [k \in 0..(Uint32Span - 1) |->
        LET hits == {i \in 1..Len(tabs) : Trunc32(tabs[i].table_id) = k}
        IN IF hits = {} THEN NULL
           ELSE tabs[CHOOSE i \in hits : \A j \in hits : j <= i].user_data]

\* setTablets, lines 733-744: the map keys whose Table is deleted.
deletedKeys(map, newTablets) ==
    {k \in DOMAIN map :
        /\ map[k] # NULL
        /\ \A i \in 1..Len(newTablets) : newTablets[i].table_id # k}

\* operator new: the address of a new Table, the lowest one not in use.
newAddress(heap) ==
    LET freed == {p \in 1..Len(heap) : heap[p].deleted}
    IN IF freed = {} THEN Len(heap) + 1 ELSE MinOf(freed)

\* setTablets, lines 752-763: give every new tablet its Table, creating the
\* Tables the map does not hold. acc = [map, heap, tabs], i the next tablet.
RECURSIVE assignTables(_, _, _)
assignTables(acc, newTablets, i) ==
    IF i > Len(newTablets) THEN acc
    ELSE LET id == newTablets[i].table_id
             k == Trunc32(id)
             fresh == acc.map[k] = NULL
             table == IF fresh THEN newAddress(acc.heap) ELSE acc.map[k]
             heap == IF ~fresh THEN acc.heap
                     ELSE IF table > Len(acc.heap)
                     THEN Append(acc.heap, NewTable(id))
                     ELSE [acc.heap EXCEPT ![table] = NewTable(id)]
         IN assignTables(
                [map |-> [acc.map EXCEPT ![k] = table],
                 heap |-> heap,
                 tabs |-> Append(acc.tabs,
                                 [newTablets[i] EXCEPT !.user_data = table])],
                newTablets, i + 1)

\* MasterServer::setTablets(newTablets): [tablets, tables, deleted]
setTabletsOp(S, newTablets) ==
    LET map == oldTables(S.tablets)
        gone == deletedKeys(map, newTablets)
        heap1 == [p \in DOMAIN S.tables |->
                    IF \E k \in gone : map[k] = p
                    THEN [S.tables[p] EXCEPT !.deleted = TRUE]
                    ELSE S.tables[p]]
        acc == assignTables([map |-> map, heap |-> heap1, tabs |-> <<>>],
                            newTablets, 1)
    IN [tablets |-> acc.tabs, tables |-> acc.heap, deleted |-> gone]

\* ------------------------------------------------------------ eviction callbacks
\* objectEvictionCallback re-appending the evicted object whether or not
\* the hash table refers to it.
objectEvictionCallback_Always(S, evictObj) ==
    LET o == S.log[evictObj]
        key == <<o.table, o.id>>
    IN IF getTable(S.tablets, o.table, o.id) = NULL
       THEN [S |-> [S EXCEPT !.objectMap[key] = NULL],
             calls |-> <<Call("remove", S.objectMap[key])>>]
       ELSE LET L == appendCall(TracedLog(S.log), [o EXCEPT !.free = FALSE])
                newObj == Len(L.log)
            IN [S |-> [S EXCEPT !.log = L.log, !.objectMap[key] = newObj],
                calls |-> Append(L.calls, Call("replace", newObj))]

\* objectEvictionCallback, lines 885-919; evictObj is the reference p of the
\* entry the cleaner evicts: [S, calls]
objectEvictionCallback(S, evictObj) ==
    LET o == S.log[evictObj]
        key == <<o.table, o.id>>
        hashTblObj == S.objectMap[key]
    IN IF getTable(S.tablets, o.table, o.id) = NULL
       THEN [S |-> [S EXCEPT !.objectMap[key] = NULL],
             calls |-> <<Call("remove", hashTblObj)>>]
       ELSE IF hashTblObj = evictObj
       THEN LET L == appendCall(TracedLog(S.log), o)
                newObj == Len(L.log)
            IN [S |-> [S EXCEPT !.log = L.log, !.objectMap[key] = newObj],
                calls |-> Append(L.calls, Call("replace", newObj))]
       ELSE [S |-> S, calls |-> <<>>]

\* tombstoneEvictionCallback re-appending every tombstone.
tombstoneEvictionCallback_Always(S, freed, tomb) ==
    LET L == appendCall(TracedLog(S.log), S.log[tomb])
    IN [S |-> [S EXCEPT !.log = L.log], calls |-> L.calls]

\* tombstoneEvictionCallback, lines 971-991; tomb is the reference p of the
\* entry the cleaner evicts, freed the segments it has freed: [S, calls]
tombstoneEvictionCallback(S, freed, tomb) ==
    IF isSegmentLive(S.log, freed, S.log[tomb].segmentId)
    THEN LET L == appendCall(TracedLog(S.log), S.log[tomb])
         IN [S |-> [S EXCEPT !.log = L.log], calls |-> L.calls]
    ELSE [S |-> S, calls |-> <<>>]

\* ------------------------------------------------------------ replay
\* The state recoverSegment works on. assert tells that one of its
\* assertions failed, which ends the process.
Replay ==
    [objectMap |-> objectMap, tombstoneMap |-> tombstoneMap,
     tombHeap |-> tombHeap, log |-> log, assert |-> thrown = "assert",
     calls |-> <<>>]

\* xmalloc + memcpy of a tombstone, and free of one; twice tells that an
\* address was given to free again.
heapAlloc(hp, recoverTomb) ==
    Append(hp, [tomb |-> recoverTomb, freed |-> FALSE, twice |-> FALSE])
heapFree(hp, tomb) ==
    [hp EXCEPT ![tomb] = [@ EXCEPT !.twice = @ \/ hp[tomb].freed,
                                   !.freed = TRUE]]

\* recoverSegment's minSuccessor for an object that ignores tombstones.
minSuccessorObject_NoTomb(R, localObj, tomb) ==
    IF localObj # NULL THEN R.log[localObj].version + 1 ELSE 0

\* recoverSegment, lines 593-597: minSuccessor of a replayed object
minSuccessorObject(R, localObj, tomb) ==
    IF localObj # NULL THEN R.log[localObj].version + 1
    ELSE IF tomb # NULL THEN R.tombHeap[tomb].tomb.version + 1
    ELSE 0

\* recoverSegment's minSuccessor for a tombstone that must be newer than
\* the object it meets.
minSuccessorTombstone_Newer(R, localObj, tomb) ==
    IF localObj # NULL THEN R.log[localObj].version + 1
    ELSE IF tomb # NULL THEN R.tombHeap[tomb].tomb.version + 1
    ELSE 0

\* recoverSegment, lines 636-640: minSuccessor of a replayed tombstone
minSuccessorTombstone(R, localObj, tomb) ==
    IF localObj # NULL THEN R.log[localObj].version
    ELSE IF tomb # NULL THEN R.tombHeap[tomb].tomb.version + 1
    ELSE 0

\* recoverSegment keeping the tombstone an applied object supersedes.
nukeTombstone_Keep(R, key, tomb) == R

\* recoverSegment, lines 613-617: nuke the tombstone, if it existed
nukeTombstone(R, key, tomb) ==
    IF tomb # NULL
    THEN [R EXCEPT !.tombstoneMap[key] = NULL,
                   !.tombHeap = heapFree(@, tomb)]
    ELSE R

\* recoverSegment, lines 576-623: one LOG_ENTRY_TYPE_OBJ record
recoverObject(R, recoverObj) ==
    LET key == <<recoverObj.table, recoverObj.id>>
        localObj == R.objectMap[key]
        tomb == R.tombstoneMap[key]
    IN IF ~(tomb = NULL \/ localObj = NULL)
       THEN [R EXCEPT !.assert = TRUE]
       ELSE IF recoverObj.version >= minSuccessorObject(R, localObj, tomb)
       THEN LET L == appendCall([log |-> R.log, calls |-> R.calls],
                                recoverObj)
                newObj == Len(L.log)
                R1 == [R EXCEPT !.log = L.log,
                                !.objectMap[key] = newObj,
                                !.calls = Append(L.calls,
                                                 Call("replace", newObj))]
                R2 == nukeTombstone(R1, key, tomb)
            IN IF localObj # NULL
               THEN LET L2 == freeCall([log |-> R2.log, calls |-> R2.calls],
                                       localObj)
                    IN [R2 EXCEPT !.log = L2.log, !.calls = L2.calls]
               ELSE R2
       ELSE R

\* recoverSegment, lines 624-662: one LOG_ENTRY_TYPE_OBJTOMB record
recoverTombstone(R, recoverTomb) ==
    LET key == <<recoverTomb.table, recoverTomb.id>>
        localObj == R.objectMap[key]
        tomb == R.tombstoneMap[key]
    IN IF ~(tomb = NULL \/ localObj = NULL)
       THEN [R EXCEPT !.assert = TRUE]
       ELSE IF recoverTomb.version >= minSuccessorTombstone(R, localObj, tomb)
       THEN LET R1 == [R EXCEPT !.tombHeap = heapAlloc(@, recoverTomb),
                                !.tombstoneMap[key] = Len(R.tombHeap) + 1]
                R2 == IF tomb # NULL
                      THEN [R1 EXCEPT !.tombHeap = heapFree(@, tomb)]
                      ELSE R1
            IN IF localObj # NULL
               THEN LET L == freeCall(
                                [log |-> R2.log,
                                 calls |-> Append(R2.calls,
                                                  Call("remove", localObj))],
                                localObj)
                    IN [R2 EXCEPT !.objectMap[key] = NULL,
                                  !.log = L.log, !.calls = L.calls]
               ELSE R2
       ELSE R

\* recoverSegment, lines 569-665: one iteration of the loop
recoverEntry(R, entry) ==
    IF entry.type = "OBJ" THEN recoverObject(R, entry)
    ELSE IF entry.type = "OBJTOMB" THEN recoverTombstone(R, entry)
    ELSE R

\* MasterServer::recoverSegment over the records from position i on.
RECURSIVE recoverSegment(_, _, _)
recoverSegment(R, buffer, i) ==
    IF i > Len(buffer) \/ R.assert THEN R
    ELSE recoverSegment(recoverEntry(R, buffer[i]), buffer, i + 1)

\* ------------------------------------------------------------ SegmentLocatorChooser
\* std::multimap::insert: after the last pair whose key is not greater.
mapInsert(map, pair) ==
    LET n == Cardinality({i \in DOMAIN map : map[i][1] <= pair[1]})
    IN SubSeq(map, 1, n) \o <<pair>> \o SubSeq(map, n + 1, Len(map))

\* The constructor's loop without the test of server_type.
RECURSIVE insertServers_AnyType(_, _, _)
insertServers_AnyType(map, list, i) ==
    IF i > Len(list) THEN map
    ELSE IF ~list[i].has_segment_id
    THEN insertServers_AnyType(map, list, i + 1)
    ELSE insertServers_AnyType(
            mapInsert(map, <<list[i].segment_id, list[i].service_locator>>),
            list, i + 1)

\* The constructor's loop over list.server(), from entry i on.
RECURSIVE insertServers(_, _, _)
insertServers(map, list, i) ==
    IF i > Len(list) THEN map
    ELSE IF ~list[i].has_segment_id \/ list[i].server_type # "BACKUP"
    THEN insertServers(map, list, i + 1)
    ELSE insertServers(
            mapInsert(map, <<list[i].segment_id, list[i].service_locator>>),
            list, i + 1)

\* The constructor without std::unique: ids keeps every key of the map.
unique_None(ids) == ids

\* std::unique: of each run of equal elements only the first is kept.
unique(ids) ==
    LET keep == {i \in DOMAIN ids : i = 1 \/ ids[i] # ids[i - 1]}
        nth(k) == CHOOSE i \in keep :
                      Cardinality({j \in keep : j <= i}) = k
    IN [k \in 1..Cardinality(keep) |-> ids[nth(k)]]

\* The length of the schedule the constructor builds for this list.
scheduleLen(list) ==
    Len(unique([i \in DOMAIN insertServers(<<>>, list, 1) |->
                    insertServers(<<>>, list, 1)[i][1]]))

\* SegmentLocatorChooser::SegmentLocatorChooser; shuffle is the permutation
\* std::random_shuffle applies.
SegmentLocatorChooser(list, shuffle) ==
    LET map == insertServers(<<>>, list, 1)
        ids == unique([i \in DOMAIN map |-> map[i][1]])
    IN [map |-> map, ids |-> [i \in DOMAIN ids |-> ids[shuffle[i]]]]

\* SegmentLocatorChooser::get: the locators rdtsc() % count may select; the
\* empty set stands for SegmentRecoveryFailedException.
chooserGet(ch, segmentId) ==
    {ch.map[i][2] : i \in {j \in DOMAIN ch.map : ch.map[j][1] = segmentId}}

\* SegmentLocatorChooser::markAsDown: the loop over equal_range(segmentId)
\* erases the first entry whose locator matches and returns.
markAsDown(ch, segmentId, locator) ==
    LET hits == {j \in DOMAIN ch.map :
                    ch.map[j][1] = segmentId /\ ch.map[j][2] = locator}
    IN IF hits = {} THEN ch
       ELSE LET it == CHOOSE j \in hits : \A k \in hits : j <= k
            IN [ch EXCEPT !.map = SubSeq(@, 1, it - 1)
                                      \o SubSeq(@, it + 1, Len(@))]

\* ------------------------------------------------------------ recover
\* ObjectTub<Task> tasks[4]
TaskSlots == 4

NoTask == [present |-> FALSE, segmentId |-> 0, backupLocator |-> ""]
Task(segmentId, backupLocator) ==
    [present |-> TRUE, segmentId |-> segmentId,
     backupLocator |-> backupLocator]

\* The start loop that does not advance segIdsIt: every slot is given the
\* first segment of the schedule.
startTasks_First(ch, locator) ==
    [slot \in 1..TaskSlots |->
        IF slot <= Len(ch.ids) THEN Task(ch.ids[1], locator[slot])
        ELSE NoTask]

\* recover, lines 378-386: the slots filled before the first poll; locator
\* gives the result of chooser.get for each slot.
startTasks(ch, locator) ==
    [slot \in 1..TaskSlots |->
        IF slot <= Len(ch.ids) THEN Task(ch.ids[slot], locator[slot])
        ELSE NoTask]

\* The polling loop that forgets --activeSegments.
activeAfterTask_Keep(active, exhausted) == active

\* recover, lines 416-419: activeSegments after a task was destroyed, with
\* the schedule exhausted (segIdsIt == segIdsEnd) or not.
activeAfterTask(active, exhausted) ==
    IF exhausted THEN active - 1 ELSE active

\* The RECOVER handler without the drain of the tombstone map.
recoveryCleanup_None(map, hp) == hp

\* tombstoneMap.forEach(recoveryCleanup, NULL): every tombstone the map
\* still holds is freed.
recoveryCleanup(map, hp) ==
    [a \in DOMAIN hp |->
        IF \E k \in DOMAIN map : map[k] = a
        THEN heapFree(hp, a)[a] ELSE hp[a]]

\* config.localLocator and serverId of this master
localLocator == "mock:host=master"
serverId == 2

\* RECOVER handler, lines 477-484: the recovery tablets with this master
\* as their owner, unchanged.
rewriteTablets_Keep(tabs) == tabs

\* RECOVER handler, lines 477-484: the recovery tablets with this master
\* as their owner
rewriteTablets(tabs) ==
    [i \in DOMAIN tabs |-> [tabs[i] EXCEPT !.service_locator = localLocator,
                                           !.server_id = serverId]]

\* The RECOVER handler that catches what recover throws and carries on.
recoverFlow_Caught(pc, threw) ==
    CASE pc = "idle" -> "polling"
      [] pc = "polling" -> "synced"
      [] pc = "synced" -> "cleaned"
      [] pc = "cleaned" -> "rewritten"
      [] pc = "rewritten" -> "notified"
      [] OTHER -> "done"

\* The RECOVER handler and recover in program order: where control is after
\* the step at pc. An exception (threw) leaves both, lines 401-406: the
\* handler has no try block.
recoverFlow(pc, threw) ==
    IF threw THEN "failed"
    ELSE CASE pc = "idle" -> "polling"
           [] pc = "polling" -> "synced"
           [] pc = "synced" -> "cleaned"
           [] pc = "cleaned" -> "rewritten"
           [] pc = "rewritten" -> "notified"
           [] OTHER -> "done"

\* ------------------------------------------------------------ requests
Tablet(t, s, e) ==
    [table_id |-> t, start_object_id |-> s, end_object_id |-> e,
     user_data |-> NULL, service_locator |-> "", server_id |-> 0]

\* The tablet lists setTablets is called with.
TabletLists ==
    { <<>>,
      <<Tablet(1, 0, MaxObjectId)>>,
      <<Tablet(1, 0, 1), Tablet(1, MaxObjectId, MaxObjectId)>> }

\* The reject rules the client operations are called with.
RequestRules ==
    { NoRules,
      [NoRules EXCEPT !.doesntExist = TRUE, !.exists = TRUE],
      [NoRules EXCEPT !.versionNeGiven = TRUE, !.givenVersion = 1] }

\* The keys read is called with, and those write and remove are called with.
ReadKeys == {<<1, 1>>, <<1, 2>>}
RequestKeys == {<<1, 1>>}

\* The indeterminate value of a segment id that was read before it was set.
UNINITIALIZED == -1
\* What remove's read of tomb.segmentId before its initialization yields:
\* a value that names no segment, or the id of the log's first segment.
UninitializedValues == {UNINITIALIZED, 0}

NoWrite == [data |-> NoData, version |-> 0]

Request(op, tableId, id, rejectRules) ==
    [op |-> op, table |-> tableId, id |-> id, rules |-> rejectRules]

\* The record of a request and its response. S is the master the handler
\* leaves; changed tells whether it differs from the master the handler
\* found; prevMax and prevRemoved are everMax and removedMax of the key
\* before the operation ran.
Response(req, S, status, version, value) ==
    [op |-> req.op, table |-> req.table, id |-> req.id,
     norules |-> req.rules = NoRules, exists |-> req.rules.exists,
     status |-> status, version |-> version, value |-> value,
     changed |-> S # Master,
     prevMax |-> IF <<req.table, req.id>> \in Keys
                 THEN everMax[<<req.table, req.id>>] ELSE 0,
     prevRemoved |-> IF <<req.table, req.id>> \in Keys
                     THEN removedMax[<<req.table, req.id>>] ELSE 0,
     prevVersion |-> IF <<req.table, req.id>> \in Keys
                        /\ objectMap[<<req.table, req.id>>] # NULL
                     THEN log[objectMap[<<req.table, req.id>>]].version
                     ELSE VERSION_NONEXISTENT]

\* The cleaner is between two segments.
NoCleaning == [active |-> FALSE, segmentId |-> 0, next |-> 0]

\* No request is being served.
Idle == [op |-> "none", table |-> 0, id |-> 0, norules |-> TRUE,
         exists |-> FALSE,
         status |-> "OK", version |-> 0, value |-> NoData,
         changed |-> FALSE, prevMax |-> 0, prevRemoved |-> 0,
         prevVersion |-> 0]

Install(S) ==
    /\ tablets' = S.tablets
    /\ tables' = S.tables
    /\ objectMap' = S.objectMap
    /\ log' = S.log

\* The worker takes the next request: the last one was answered and the
\* worker is not inside the RECOVER handler, or recover is polling its RPCs.
Serving ==
    /\ lastOp = Idle
    /\ recoverPc \in {"idle", "polling", "done", "failed"}

\* ------------------------------------------------------------ actions
InitMaster ==
    /\ tablets = <<>>
    /\ tables = <<>>
    /\ objectMap = [k \in Keys |-> NULL]
    /\ log = <<>>
    /\ lastOp = Idle
    /\ everMax = [k \in Keys |-> 0]
    /\ removedMax = [k \in Keys |-> 0]
    /\ dropped = [k \in 0..(Uint32Span - 1) |-> FALSE]
    /\ written = [k \in Keys |-> NoWrite]

NoCheck == [rules |-> NoRules, version |-> 0, result |-> "none"]

\* No recovery is running.
NoReplay ==
    /\ tombstoneMap = [k \in Keys |-> NULL]
    /\ tombHeap = <<>>
    /\ segment = <<>>
    /\ segIt = 1
    /\ replayStart = [objectMap |-> [k \in Keys |-> NULL], log |-> <<>>]
    /\ thrown = "none"

\* recover was not called.
NoRecover ==
    /\ backups = <<>>
    /\ chooser = [map |-> <<>>, ids |-> <<>>]
    /\ segIdsIt = 1
    /\ tasks = [slot \in 1..TaskSlots |-> NoTask]
    /\ activeSegments = 0
    /\ recoverPc = "idle"
    /\ fetched = [s \in SegmentIds |-> 0]
    /\ failure = NoTask
    /\ recoveryTablets = <<>>
    /\ coordinator = <<>>
    /\ synced = 0

\* The cleaner is not running and no operation has made a call.
NoCleaner ==
    /\ calls = <<>>
    /\ cleaned = {}
    /\ cleaner = NoCleaning

\* No get was called on a chooser.
NoGet == [called |-> FALSE, segmentId |-> 0, locator |-> "", threw |-> FALSE]

\* The chooser has had no call; the BackupFailureMonitor is as its
\* constructor leaves it, not running and without thread; the server list
\* is empty and has no tracker.
\* The threads that call getSession(1), none of them inside it yet.
Callers == {"t1", "t2"}
NoCallers ==
    [t \in Callers |-> [pc |-> "start", id |-> 1, opened |-> "NULL",
                        actualId |-> 0, result |-> "none"]]

NoComponents ==
    /\ got = NoGet
    /\ downed = {}
    /\ monitor = [running |-> FALSE, thread |-> FALSE, threads |-> 0,
                  calls |-> <<>>]
    /\ serverList = [slots |-> <<>>, trackers |-> <<>>,
                     isBeingDestroyed |-> FALSE]
    /\ tracker = [changes |-> <<>>, fired |-> <<>>, parent |-> FALSE,
                  threw |-> FALSE]
    /\ callers = NoCallers

Init ==
    /\ InitMaster
    /\ rj = NoCheck
    /\ NoReplay
    /\ NoRecover
    /\ NoCleaner
    /\ NoComponents

SetTablets ==
    \E newTablets \in TabletLists :
        /\ Serving
        /\ LET r == setTabletsOp(Master, newTablets)
           IN /\ tablets' = r.tablets
              /\ tables' = r.tables
              /\ dropped' = [k \in DOMAIN dropped |->
                                dropped[k] \/ k \in r.deleted]
        /\ lastOp' = Response(Request("setTablets", 0, 0, NoRules),
                              [Master EXCEPT !.tablets = tablets',
                                             !.tables = tables'],
                              "OK", 0, NoData)
        /\ UNCHANGED <<objectMap, log, everMax, removedMax, written, rj, componentVars,
                       replayVars, driverVars, completionVars, cleanerVars,
                       calls>>

Write ==
    \E key \in RequestKeys, rejectRules \in RequestRules, data \in Data :
        /\ Serving
        /\ LET req == Request("write", key[1], key[2], rejectRules)
               r == storeData(Master, key[1], key[2], rejectRules, data)
           IN /\ Len(r.S.log) <= MaxLog
              /\ Install(r.S)
              /\ lastOp' = Response(req, r.S, r.status, r.version, NoData)
              /\ everMax' = IF r.status = "OK"
                            THEN [everMax EXCEPT ![key] = Max(@, r.version)]
                            ELSE everMax
              /\ written' = IF r.status = "OK"
                            THEN [written EXCEPT ![key] =
                                    [data |-> data, version |-> r.version]]
                            ELSE written
              /\ calls' = r.calls
        /\ UNCHANGED <<removedMax, dropped, rj, componentVars, replayVars, driverVars,
                       completionVars, cleanerVars>>

Create ==
    \E tableId \in TableIds, data \in CreateData :
        /\ Serving
        /\ LET r == createOp(Master, tableId, data)
               req == Request("create", tableId, r.id, NoRules)
               key == <<tableId, r.id>>
           IN /\ r.id <= MaxObjectId
              /\ Len(r.S.log) <= MaxLog
              /\ Install(r.S)
              /\ lastOp' = Response(req, r.S, r.status, r.version, NoData)
              /\ everMax' = IF r.status = "OK"
                            THEN [everMax EXCEPT ![key] = Max(@, r.version)]
                            ELSE everMax
              /\ written' = IF r.status = "OK"
                            THEN [written EXCEPT ![key] =
                                    [data |-> data, version |-> r.version]]
                            ELSE written
              /\ calls' = r.calls
        /\ UNCHANGED <<removedMax, dropped, rj, componentVars, replayVars, driverVars,
                       completionVars, cleanerVars>>

Read ==
    \E key \in ReadKeys, rejectRules \in RequestRules :
        /\ Serving
        /\ LET req == Request("read", key[1], key[2], rejectRules)
               r == readOp(Master, key[1], key[2], rejectRules)
           IN /\ Install(r.S)
              /\ lastOp' = Response(req, r.S, r.status, r.version, r.value)
        /\ UNCHANGED <<everMax, removedMax, dropped, written, rj, componentVars,
                       replayVars, driverVars, completionVars, cleanerVars,
                       calls>>

Remove ==
    \E key \in RequestKeys, rejectRules \in RequestRules,
       uninit \in UninitializedValues :
        /\ Serving
        /\ LET req == Request("remove", key[1], key[2], rejectRules)
               r == removeOp(Master, key[1], key[2], rejectRules, uninit)
               removed == r.status = "OK" /\ objectMap[key] # NULL
           IN /\ Len(r.S.log) <= MaxLog
              /\ Install(r.S)
              /\ lastOp' = Response(req, r.S, r.status, r.version, NoData)
              /\ removedMax' = IF removed
                               THEN [removedMax EXCEPT
                                        ![key] = Max(@, r.version)]
                               ELSE removedMax
              /\ everMax' = IF removed
                            THEN [everMax EXCEPT ![key] = Max(@, r.version)]
                            ELSE everMax
              /\ written' = IF removed
                            THEN [written EXCEPT ![key] = NoWrite]
                            ELSE written
              /\ calls' = r.calls
        /\ UNCHANGED <<dropped, rj, componentVars, replayVars, driverVars, completionVars,
                       cleanerVars>>

\* MasterServer::run: the reply is sent and the next request is awaited.
Reply ==
    /\ lastOp # Idle
    /\ lastOp' = Idle
    /\ calls' = <<>>
    /\ UNCHANGED <<masterVars, everMax, removedMax, dropped, written, rj, componentVars,
                   replayVars, driverVars, completionVars, cleanerVars>>

Next == SetTablets \/ Create \/ Read \/ Write \/ Remove \/ Reply

Spec == Init /\ [][Next]_vars

\* ------------------------------------------------------------ properties of Spec
Stored(op) == op.op \in {"write", "create"} /\ op.status = "OK"
TableKept(tableId) == ~dropped[Trunc32(tableId)]
IndexVersion(key) ==
    IF objectMap[key] = NULL THEN VERSION_NONEXISTENT
    ELSE log[objectMap[key]].version

\* C1: in a history of create/write/remove operations (the Table of the key
\* was never deleted by setTablets), every accepted write returns a version
\* strictly greater than every version an object stored under the same key
\* had before, removed objects included.
C1_WriteExceedsEarlierVersions ==
    (lastOp.op = "write" /\ lastOp.status = "OK" /\ TableKept(lastOp.table))
        => lastOp.version > lastOp.prevMax

\* C1 witness: a write accepted after an object of version 2 was removed
\* from its key, so that only the raised version floor decides its version.
C1_Witness ==
    /\ lastOp.op = "write" /\ lastOp.status = "OK" /\ TableKept(lastOp.table)
    /\ lastOp.prevRemoved = 2 /\ lastOp.prevMax = 2 /\ lastOp.version = 3

\* C2, as claimed: every accepted write or create that stores an object under
\* a key gets a version strictly greater than the version of every object an
\* accepted remove removed from that key before.
C2_StoreExceedsRemovedVersion ==
    Stored(lastOp) => lastOp.version > lastOp.prevRemoved

\* C3, as claimed: for every key the version the index holds (NONEXISTENT
\* when it holds none) is the largest version the accepted operations on
\* the key returned, in a history of writes and removes.
C3_IndexVersionIsMaxAccepted ==
    \A key \in Keys :
        TableKept(key[1]) => IndexVersion(key) = everMax[key]

\* C3, amended: for every key the index holds an object for, the version of
\* that object is the largest version the accepted operations on the key
\* returned; after an accepted remove the index holds no entry for the key.
C3_IndexedVersionIsMaxAccepted ==
    /\ \A key \in Keys :
          (TableKept(key[1]) /\ objectMap[key] # NULL)
              => IndexVersion(key) = everMax[key]
    /\ (lastOp.op = "remove" /\ lastOp.changed)
          => objectMap[<<lastOp.table, lastOp.id>>] = NULL

\* C3 witness: a key written again after its object was removed, the index
\* holding the newest version.
C3_Witness ==
    \E key \in Keys :
        /\ TableKept(key[1]) /\ objectMap[key] # NULL
        /\ removedMax[key] >= 1 /\ IndexVersion(key) > removedMax[key]
        /\ lastOp.op = "write"

PreconditionErrors ==
    {"TableDoesntExist", "ObjectDoesntExist", "ObjectExists", "WrongVersion"}

\* C4, as claimed: a create, read, write or remove that ends with
\* TableDoesntExist, ObjectDoesntExist, ObjectExists or WrongVersion leaves
\* the log, the index, the tablets and every Table as it found them.
C4_ErrorLeavesMasterUnchanged ==
    (lastOp.op \in {"create", "read", "write", "remove"}
        /\ lastOp.status \in PreconditionErrors) => ~lastOp.changed

\* C6: a read without reject rules of a key whose last accepted write or
\* create stored data b at version v, no write or remove of the key accepted
\* since and the key still served, returns exactly b and v.
C6_ReadReturnsLastWrite ==
    LET key == <<lastOp.table, lastOp.id>>
    IN (/\ lastOp.op = "read" /\ lastOp.norules
        /\ written[key] # NoWrite
        /\ getTable(tablets, lastOp.table, lastOp.id) # NULL)
           => /\ lastOp.status = "OK"
              /\ lastOp.value = written[key].data
              /\ lastOp.version = written[key].version

\* C6 witness: a read returning the second value written to its key.
C6_Witness ==
    /\ lastOp.op = "read" /\ lastOp.norules /\ lastOp.status = "OK"
    /\ lastOp.version = 2 /\ lastOp.value = "b"
    /\ written[<<lastOp.table, lastOp.id>>] = [data |-> "b", version |-> 2]

\* The key of the last request.
LastKey == <<lastOp.table, lastOp.id>>

\* C14, as claimed: every tombstone in the log, each appended by a write or
\* a remove, names the segment holding the object it supersedes, and that
\* segment is live.
C14_TombstoneNamesLiveObjectSegment ==
    \A i \in DOMAIN log :
        log[i].type = "OBJTOMB" =>
            /\ \E j \in 1..(i - 1) :
                  /\ log[j].type = "OBJ"
                  /\ <<log[j].table, log[j].id>> = <<log[i].table, log[i].id>>
                  /\ log[j].version = log[i].version
                  /\ log[i].segmentId = getSegmentId(j)
            /\ isSegmentLive(log, cleaned, log[i].segmentId)

\* C15: an accepted write to a key that held an object has made exactly
\* the calls log.free(the old object), log.append(its tombstone),
\* log.append(the new object), objectMap.replace(the new object), in this
\* order; an accepted write to an absent key has made exactly log.append(the
\* new object) and objectMap.replace.
C15_WriteCallOrder ==
    (lastOp.op = "write" /\ lastOp.status = "OK") =>
        LET new == objectMap[LastKey]
        IN /\ new # NULL
           /\ log[new].type = "OBJ"
           /\ IF lastOp.prevVersion # VERSION_NONEXISTENT
              THEN /\ Len(calls) = 4
                   /\ calls[1].call = "free"
                   /\ log[calls[1].ref].type = "OBJ"
                   /\ log[calls[1].ref].free
                   /\ <<log[calls[1].ref].table, log[calls[1].ref].id>>
                         = LastKey
                   /\ log[calls[1].ref].version = lastOp.prevVersion
                   /\ calls[2].call = "append"
                   /\ log[calls[2].ref].type = "OBJTOMB"
                   /\ <<log[calls[2].ref].table, log[calls[2].ref].id>>
                         = LastKey
                   /\ log[calls[2].ref].version = lastOp.prevVersion
                   /\ calls[3] = Call("append", new)
                   /\ calls[4] = Call("replace", new)
              ELSE calls = <<Call("append", new), Call("replace", new)>>

\* An accepted overwrite has made its four calls.
C15_Witness ==
    /\ lastOp.op = "write" /\ lastOp.status = "OK"
    /\ lastOp.prevVersion # VERSION_NONEXISTENT
    /\ Len(calls) = 4

\* C19: a create that reaches a table is accepted under a key the index
\* did not hold: it frees nothing and appends no tombstone, and the object
\* it stores is the only one of the key the index refers to.
C19_CreateTakesUnusedKey ==
    (lastOp.op = "create" /\ lastOp.status # "TableDoesntExist") =>
        /\ lastOp.prevVersion = VERSION_NONEXISTENT
        /\ lastOp.status = "OK"
        /\ objectMap[LastKey] # NULL
        /\ calls = <<Call("append", objectMap[LastKey]),
                     Call("replace", objectMap[LastKey])>>
        /\ ~log[objectMap[LastKey]].free
        /\ \A i \in DOMAIN log :
              (log[i].type = "OBJ" /\ <<log[i].table, log[i].id>> = LastKey
                 /\ ~log[i].free) => i = objectMap[LastKey]

\* A create stored its object under key 2 while key 1 held an object.
C19_Witness ==
    /\ lastOp.op = "create" /\ lastOp.status = "OK" /\ lastOp.id = 2
    /\ objectMap[<<1, 1>>] # NULL
    /\ objectMap[<<1, 2>>] # NULL

\* C20: an accepted write returns the version of the object it stored,
\* which is the previous version + 1 where the key held an object; an
\* accepted remove of an object returns the version of that object; a write
\* its reject rules refuse returns the version the key has (NONEXISTENT
\* where it has none).
C20_ReturnedVersions ==
    /\ (lastOp.op = "write" /\ lastOp.status = "OK") =>
          /\ lastOp.version = log[objectMap[LastKey]].version
          /\ lastOp.prevVersion # VERSION_NONEXISTENT
                => lastOp.version = lastOp.prevVersion + 1
    /\ (lastOp.op = "remove" /\ lastOp.status = "OK"
           /\ lastOp.prevVersion # VERSION_NONEXISTENT) =>
          /\ lastOp.version = lastOp.prevVersion
          /\ objectMap[LastKey] = NULL
    /\ (lastOp.op = "write"
           /\ lastOp.status \in {"ObjectDoesntExist", "ObjectExists",
                                 "WrongVersion"}) =>
          lastOp.version = lastOp.prevVersion

\* An overwrite returned version 2, the remove after it returned 2 as
\* well.
C20_Witness ==
    /\ lastOp.op = "remove" /\ lastOp.status = "OK"
    /\ lastOp.version = 2
    /\ \E i \in DOMAIN log :
          log[i].type = "OBJ" /\ log[i].version = 1 /\ log[i].free

\* A tablet of the tablet map has the table id of the key and holds its
\* object id.
Covered(key) ==
    \E i \in DOMAIN tablets :
        /\ tablets[i].table_id = key[1]
        /\ tablets[i].start_object_id <= key[2]
        /\ key[2] <= tablets[i].end_object_id

C22_RemoveOfAbsentKey ==
    (/\ lastOp.op = "remove"
     /\ lastOp.norules
     /\ lastOp.prevVersion = VERSION_NONEXISTENT
     /\ Covered(LastKey)) =>
        /\ lastOp.status = "OK"
        /\ lastOp.version = VERSION_NONEXISTENT
        /\ calls = <<>>
        /\ ~lastOp.changed
        /\ objectMap[LastKey] = NULL

\* The second of two removes: the first removed the object of version 1.
C22_Witness ==
    /\ lastOp.op = "remove" /\ lastOp.norules /\ lastOp.status = "OK"
    /\ lastOp.prevVersion = VERSION_NONEXISTENT
    /\ lastOp.prevRemoved = 1
    /\ \E i \in DOMAIN log :
          log[i].type = "OBJTOMB" /\ <<log[i].table, log[i].id>> = LastKey

\* C23, as claimed: a write whose reject rules have exists not set, to a key
\* that holds the object stored at version 1, is refused with ObjectExists
\* and the index holds that object afterwards.
C23_WriteWithoutExistsRuleRefused ==
    (/\ lastOp.op = "write"
     /\ ~lastOp.exists
     /\ lastOp.prevVersion = 1) =>
        /\ lastOp.status = "ObjectExists"
        /\ IndexVersion(LastKey) = 1

\* C23, amended: a write whose reject rules have exists set, to a key of a
\* served tablet that holds an object, is refused with ObjectExists and
\* returns the object's version; the master is as it was and the index
\* holds the object with the version and the data last stored.
C23_WriteWithExistsRuleRefused ==
    (/\ lastOp.op = "write"
     /\ lastOp.exists
     /\ lastOp.prevVersion # VERSION_NONEXISTENT
     /\ Covered(LastKey)) =>
        /\ lastOp.status = "ObjectExists"
        /\ lastOp.version = lastOp.prevVersion
        /\ ~lastOp.changed
        /\ calls = <<>>
        /\ IndexVersion(LastKey) = lastOp.prevVersion
        /\ (TableKept(lastOp.table) /\ written[LastKey] # NoWrite) =>
              /\ log[objectMap[LastKey]].version = written[LastKey].version
              /\ log[objectMap[LastKey]].data = written[LastKey].data

\* A write with the exists rule was refused on the object stored at
\* version 1.
C23_Witness ==
    /\ lastOp.op = "write" /\ lastOp.exists
    /\ lastOp.status = "ObjectExists"
    /\ lastOp.prevVersion = 1
    /\ written[LastKey].version = 1
    /\ log[objectMap[LastKey]].data = written[LastKey].data

\* C29: a step that serves a read leaves the log, the object index, the
\* tablet map and the Tables as they were, whatever the read's outcome.
C29_ReadMutatesNothing ==
    [][ (lastOp.op = "none" /\ lastOp'.op = "read")
        => /\ log' = log
           /\ objectMap' = objectMap
           /\ tablets' = tablets
           /\ tables' = tables
           /\ ~lastOp'.changed ]_vars

\* A read refused by its reject rules on a master whose log holds an
\* overwritten object.
C29_Witness ==
    /\ lastOp.op = "read"
    /\ lastOp.status = "WrongVersion"
    /\ \E i \in DOMAIN log : log[i].free

\* ------------------------------------------------------------ rejectOperation alone
Versions == 0..MaxRuleVersion

InitReject ==
    /\ InitMaster
    /\ rj \in [rules : AllRejectRules, version : Versions, result : {"none"}]
    /\ NoReplay
    /\ NoRecover
    /\ NoCleaner
    /\ NoComponents

RejectOperation ==
    /\ rj.result = "none"
    /\ rj' = [rj EXCEPT !.result = rejectOperation(rj.rules, rj.version)]
    /\ UNCHANGED <<masterVars, ghostVars, componentVars, replayVars, driverVars,
                   completionVars, cleanerVars, calls>>

NextReject == RejectOperation

SpecReject == InitReject /\ [][NextReject]_vars

\* ------------------------------------------------------------ SpecReplay
\* The replay of the filtered records of a crashed master, one record per
\* step, over every short stream of records and with or without an object
\* the recovering master already holds.
SegmentLen == 3

ReplayKeys == {<<1, 1>>, <<1, 2>>}
ReplayVersions(key) == IF key = <<1, 1>> THEN {0, 5, 6, 7} ELSE {5}
ReplayObjects ==
    UNION { { ObjectEntry(key[1], key[2], v, "a") : v \in ReplayVersions(key) } :
            key \in ReplayKeys }
ReplayRecords ==
    ReplayObjects \cup { ObjectTombstone(0, o) : o \in ReplayObjects }
LocalVersions == {VERSION_NONEXISTENT, 6}

InitReplay ==
    /\ \E local \in LocalVersions :
         /\ log = IF local = VERSION_NONEXISTENT THEN <<>>
                  ELSE <<ObjectEntry(1, 1, local, "b")>>
         /\ objectMap = [k \in Keys |->
                           IF k = <<1, 1>> /\ local # VERSION_NONEXISTENT
                           THEN 1 ELSE NULL]
         /\ tables = <<[NewTable(1) EXCEPT !.nextVersion = local + 1]>>
    /\ tablets = <<[Tablet(1, 0, MaxObjectId) EXCEPT !.user_data = 1]>>
    /\ lastOp = Idle
    /\ everMax = [k \in Keys |-> 0]
    /\ removedMax = [k \in Keys |-> 0]
    /\ dropped = [k \in 0..(Uint32Span - 1) |-> FALSE]
    /\ written = [k \in Keys |-> NoWrite]
    /\ rj = NoCheck
    /\ tombstoneMap = [k \in Keys |-> NULL]
    /\ tombHeap = <<>>
    /\ segment \in [1..SegmentLen -> ReplayRecords]
    /\ segIt = 1
    /\ replayStart = [objectMap |-> objectMap, log |-> log]
    /\ thrown = "none"
    /\ NoRecover
    /\ NoCleaner
    /\ NoComponents

\* One iteration of recoverSegment's loop.
RecoverEntry ==
    /\ thrown = "none"
    /\ segIt <= Len(segment)
    /\ LET R == recoverEntry(Replay, segment[segIt])
       IN /\ objectMap' = R.objectMap
          /\ tombstoneMap' = R.tombstoneMap
          /\ tombHeap' = R.tombHeap
          /\ log' = R.log
          /\ thrown' = IF R.assert THEN "assert" ELSE thrown
          /\ segIt' = IF R.assert THEN segIt ELSE segIt + 1
          /\ calls' = R.calls
    /\ UNCHANGED <<tablets, tables, ghostVars, rj, componentVars, segment, replayStart,
                   driverVars, completionVars, cleanerVars>>

NextReplay == RecoverEntry

SpecReplay == InitReplay /\ [][NextReplay]_vars

\* RECOVER handler, lines 467-469, after recover has replayed the records
\* and returned: the tombstones left in the hash table are freed.
ReplayCleanup ==
    /\ thrown = "none"
    /\ segIt > Len(segment)
    /\ recoverPc = "idle"
    /\ tombHeap' = recoveryCleanup(tombstoneMap, tombHeap)
    /\ tombstoneMap' = [k \in Keys |-> NULL]
    /\ recoverPc' = "cleaned"
    /\ UNCHANGED <<masterVars, ghostVars, rj, componentVars, segment, segIt,
                   replayStart, thrown, backups, chooser, segIdsIt, tasks,
                   activeSegments, fetched, failure, completionVars,
                   cleanerVars, calls>>

NextReplayCleanup == RecoverEntry \/ ReplayCleanup

SpecReplayCleanup == InitReplay /\ [][NextReplayCleanup]_vars

\* ------------------------------------------------------------ properties of SpecReplay
\* Per key, the version of the object the object index holds and the version
\* of the tombstone the recovery-tombstone index holds (<<>> for none).
IndexSummary(R) ==
    [key \in Keys |->
        [object |-> IF R.objectMap[key] = NULL THEN <<>>
                    ELSE <<R.log[R.objectMap[key]].version>>,
         tombstone |-> IF R.tombstoneMap[key] = NULL THEN <<>>
                       ELSE <<R.tombHeap[R.tombstoneMap[key]].tomb.version>>]]

\* The state the replay started in: the tombstone index is empty.
ReplayStartState ==
    [objectMap |-> replayStart.objectMap,
     tombstoneMap |-> [k \in Keys |-> NULL],
     tombHeap |-> <<>>, log |-> replayStart.log, assert |-> FALSE,
     calls |-> <<>>]

ReplayDone == segIt > Len(segment) /\ thrown = "none"
RecordsOf(key) ==
    {[type |-> segment[i].type, version |-> segment[i].version] :
        i \in {j \in DOMAIN segment :
                    <<segment[j].table, segment[j].id>> = key}}

\* C7: once all records of the stream are replayed, the object index and the
\* recovery-tombstone index hold per key the same kind of entry with the
\* same version as a replay of any permutation of the stream from the same
\* start yields; and a key without a local object whose records are an
\* object of version 5 and a tombstone of version 7 ends with no object and
\* a tombstone of version 7.
C7_ReplayOrderIndependent ==
    ReplayDone =>
        /\ \A p \in Permutations(DOMAIN segment) :
              IndexSummary(recoverSegment(ReplayStartState,
                              [i \in DOMAIN segment |-> segment[p[i]]], 1))
                  = IndexSummary(Replay)
        /\ \A key \in ReplayKeys :
              (/\ replayStart.objectMap[key] = NULL
               /\ RecordsOf(key) = {[type |-> "OBJ", version |-> 5],
                                    [type |-> "OBJTOMB", version |-> 7]})
                  => IndexSummary(Replay)[key]
                         = [object |-> <<>>, tombstone |-> <<7>>]

\* C7 witness: the replay of a stream that holds the tombstone of version 7
\* before the object of version 5 of one key has finished.
C7_Witness ==
    /\ ReplayDone
    /\ replayStart.objectMap[<<1, 1>>] = NULL
    /\ segment[1].type = "OBJTOMB" /\ segment[1].version = 7
    /\ segment[2].type = "OBJ" /\ segment[2].version = 5
    /\ <<segment[1].id, segment[2].id, segment[3].id>> = <<1, 1, 2>>
    /\ IndexSummary(Replay)[<<1, 1>>] = [object |-> <<>>, tombstone |-> <<7>>]

\* The record a replay step has just consumed, its key and what the indexes
\* held for the key before the step.
StepRecord == segment[segIt]
StepKey == <<StepRecord.table, StepRecord.id>>
StepMinSuccessor ==
    LET L == objectMap[StepKey]
        T == tombstoneMap[StepKey]
    IN IF StepRecord.type = "OBJ"
       THEN IF L # NULL THEN log[L].version + 1
            ELSE IF T # NULL THEN tombHeap[T].tomb.version + 1
            ELSE 0
       ELSE IF L # NULL THEN log[L].version
            ELSE IF T # NULL THEN tombHeap[T].tomb.version + 1
            ELSE 0

\* C8: a replay step applies its record exactly when the record's version is
\* at least minSuccessor (for an object: L.version+1, else
\* T.objectVersion+1, else 0; for a tombstone: L.version, else
\* T.objectVersion+1, else 0): an applied object is appended to the log and
\* becomes the index entry of its key, an applied tombstone becomes the
\* recovery tombstone of its key and the key has no object; a record below
\* minSuccessor leaves both indexes and the log as they were.
C8_AppliedIffAtLeastMinSuccessor ==
    [][ segIt' = segIt + 1 =>
          IF StepRecord.version >= StepMinSuccessor
          THEN IF StepRecord.type = "OBJ"
               THEN /\ log' = Append(
                            IF objectMap[StepKey] # NULL
                            THEN logFree(log, objectMap[StepKey]) ELSE log,
                            StepRecord)
                    /\ objectMap' = [objectMap EXCEPT ![StepKey] = Len(log')]
                    /\ tombstoneMap' = [tombstoneMap EXCEPT ![StepKey] = NULL]
               ELSE /\ objectMap' = [objectMap EXCEPT ![StepKey] = NULL]
                    /\ tombstoneMap'[StepKey] # NULL
                    /\ tombHeap'[tombstoneMap'[StepKey]].tomb = StepRecord
                    /\ \A k \in Keys \ {StepKey} :
                          tombstoneMap'[k] = tombstoneMap[k]
          ELSE UNCHANGED <<objectMap, tombstoneMap, log>> ]_vars

\* C8 witness: a tombstone with the version of the live object has removed
\* that object from the index.
C8_Witness ==
    /\ segIt = 2 /\ segment[1].type = "OBJTOMB"
    /\ replayStart.objectMap[<<segment[1].table, segment[1].id>>] # NULL
    /\ segment[1].version = replayStart.log[1].version
    /\ objectMap[<<segment[1].table, segment[1].id>>] = NULL
    /\ tombstoneMap[<<segment[1].table, segment[1].id>>] # NULL

\* C9: at every point of a replay that started with an empty
\* recovery-tombstone index no key has both an object in the object index
\* and a tombstone in the recovery-tombstone index, and neither assertion of
\* recoverSegment has failed.
C9_NeverObjectAndTombstone ==
    /\ \A key \in Keys : objectMap[key] = NULL \/ tombstoneMap[key] = NULL
    /\ thrown # "assert"

\* C9 witness: a key whose tombstone was superseded by a replayed object,
\* which a later tombstone removed again.
C9_Witness ==
    \E key \in ReplayKeys :
        /\ ReplayDone
        /\ tombstoneMap[key] = 2 /\ tombHeap[1].freed
        /\ objectMap[key] = NULL
        /\ \E i \in DOMAIN log : log[i].free /\ i > Len(replayStart.log)

\* C16, as claimed: where the replay of a record has superseded a log
\* entry, log.free of that entry came before every log.append of the same
\* replay.
C16_FreeBeforeAppend ==
    \A i \in DOMAIN calls, j \in DOMAIN calls :
        (calls[i].call = "free" /\ calls[j].call = "append") => i < j

\* The heap tombstones the recovery-tombstone index refers to.
InTombstoneMap == {tombstoneMap[k] : k \in Keys} \ {NULL}

\* C33: in a recovery without failure a heap tombstone is freed exactly when
\* it leaves the recovery-tombstone index (replaced by a newer tombstone,
\* superseded by a newer object, or drained at the end), no address is
\* given to free twice, and after the drain every heap tombstone is freed.
C33_HeapTombstonesFreedOnce ==
    thrown = "none" =>
        \A a \in DOMAIN tombHeap :
            /\ ~tombHeap[a].twice
            /\ tombHeap[a].freed <=> a \notin InTombstoneMap
            /\ recoverPc = "cleaned" => tombHeap[a].freed

\* Three tombstones were copied to the heap: the first was freed when the
\* second replaced it, the other two by the drain.
C33_Witness ==
    /\ recoverPc = "cleaned"
    /\ segment = << ObjectTombstone(0, ObjectEntry(1, 1, 5, "a")),
                    ObjectTombstone(0, ObjectEntry(1, 1, 6, "a")),
                    ObjectTombstone(0, ObjectEntry(1, 2, 5, "a")) >>
    /\ Len(tombHeap) = 3
    /\ \A a \in DOMAIN tombHeap : tombHeap[a].freed /\ ~tombHeap[a].twice

\* ------------------------------------------------------------ SpecCleaner
\* The LogCleaner beside the worker: it takes a full segment that it has not
\* freed, hands every entry of the segment to the callback registered for
\* the entry's type, and frees the segment. Each callback runs under the
\* cleaner's interlock, between two requests of the worker.
firstRef(segmentId) == segmentId * SegmentEntries + 1
lastRef(segmentId) == (segmentId + 1) * SegmentEntries

\* The segments the cleaner may take.
Cleanable ==
    {getSegmentId(ref) : ref \in DOMAIN log} \cap
    {sid \in 0..MaxSegments :
        lastRef(sid) <= Len(log) /\ sid \notin cleaned}

StartCleaning ==
    /\ lastOp = Idle
    /\ ~cleaner.active
    /\ \E sid \in Cleanable :
          cleaner' = [active |-> TRUE, segmentId |-> sid,
                      next |-> firstRef(sid)]
    /\ UNCHANGED <<masterVars, ghostVars, rj, componentVars, replayVars, driverVars,
                   completionVars, cleaned, calls>>

\* The cleaner evicts an entry of type LOG_ENTRY_TYPE_OBJ.
EvictObject ==
    /\ lastOp = Idle
    /\ cleaner.active
    /\ cleaner.next <= lastRef(cleaner.segmentId)
    /\ log[cleaner.next].type = "OBJ"
    /\ LET r == objectEvictionCallback(Master, cleaner.next)
       IN /\ Len(r.S.log) <= MaxLog
          /\ Install(r.S)
          /\ calls' = r.calls
    /\ cleaner' = [cleaner EXCEPT !.next = @ + 1]
    /\ UNCHANGED <<ghostVars, rj, componentVars, replayVars, driverVars, completionVars,
                   cleaned>>

\* The cleaner evicts an entry of type LOG_ENTRY_TYPE_OBJTOMB.
EvictTombstone ==
    /\ lastOp = Idle
    /\ cleaner.active
    /\ cleaner.next <= lastRef(cleaner.segmentId)
    /\ log[cleaner.next].type = "OBJTOMB"
    /\ LET r == tombstoneEvictionCallback(Master, cleaned, cleaner.next)
       IN /\ Len(r.S.log) <= MaxLog
          /\ Install(r.S)
          /\ calls' = r.calls
    /\ cleaner' = [cleaner EXCEPT !.next = @ + 1]
    /\ UNCHANGED <<ghostVars, rj, componentVars, replayVars, driverVars, completionVars,
                   cleaned>>

\* Every entry of the segment was evicted: the segment is freed.
FreeSegment ==
    /\ lastOp = Idle
    /\ cleaner.active
    /\ cleaner.next > lastRef(cleaner.segmentId)
    /\ cleaned' = cleaned \cup {cleaner.segmentId}
    /\ cleaner' = NoCleaning
    /\ calls' = <<>>
    /\ UNCHANGED <<masterVars, ghostVars, rj, componentVars, replayVars, driverVars,
                   completionVars>>

NextCleaner ==
    \/ SetTablets \/ Write \/ Remove \/ Reply
    \/ StartCleaning \/ EvictObject \/ EvictTombstone \/ FreeSegment

SpecCleaner == Init /\ [][NextCleaner]_vars

\* ------------------------------------------------------------ properties of SpecCleaner
\* What the index holds: per key nothing, or the version and the data of
\* the object it refers to.
IndexContents ==
    [k \in Keys |->
        IF objectMap[k] = NULL THEN <<>>
        ELSE <<log[objectMap[k]].version, log[objectMap[k]].data>>]

\* This step is the eviction of the entry at cleaner.next, of this type.
EvictionOf(type) ==
    /\ cleaner.active
    /\ cleaner' = [cleaner EXCEPT !.next = @ + 1]
    /\ log[cleaner.next].type = type

\* C17: the eviction of an OBJ entry of a served tablet leaves the keys of
\* the index, and the version and data of each, as they were: where the
\* index refers to the evicted entry, a copy with the same contents is
\* appended and the index refers to the copy afterwards; where it does
\* not, nothing is appended and the index is not changed.
C17_ObjectEvictionKeepsIndex ==
    [][ (/\ EvictionOf("OBJ")
         /\ getTable(tablets, log[cleaner.next].table,
                     log[cleaner.next].id) # NULL)
        => LET evictObj == cleaner.next
               key == <<log[evictObj].table, log[evictObj].id>>
           IN /\ IndexContents' = IndexContents
              /\ IF objectMap[key] = evictObj
                 THEN /\ log' = Append(log, log[evictObj])
                      /\ objectMap' =
                            [objectMap EXCEPT ![key] = Len(log) + 1]
                 ELSE /\ log' = log
                      /\ objectMap' = objectMap ]_vars

\* The cleaner has evicted the object the index referred to: the index
\* refers to the copy at the head of the log.
C17_Witness ==
    /\ lastOp = Idle
    /\ cleaner.active
    /\ cleaner.next > firstRef(cleaner.segmentId)
    /\ log[cleaner.next - 1].type = "OBJ"
    /\ calls = <<Call("append", Len(log)), Call("replace", Len(log))>>
    /\ objectMap[<<log[Len(log)].table, log[Len(log)].id>>] = Len(log)
    /\ log[Len(log)] = log[cleaner.next - 1]

\* C18: the eviction of a tombstone appends a copy of the tombstone to the
\* log if the segment its segmentId names is live, appends nothing if it
\* is not, and leaves the object index as it was.
C18_TombstoneEvictionFollowsLiveness ==
    [][ EvictionOf("OBJTOMB")
        => /\ objectMap' = objectMap
           /\ IF /\ log[cleaner.next].segmentId \notin cleaned
                 /\ \E ref \in DOMAIN log :
                       getSegmentId(ref) = log[cleaner.next].segmentId
              THEN log' = Append(log, log[cleaner.next])
              ELSE log' = log ]_vars

\* The cleaner has dropped a tombstone whose segment it had freed, after it
\* had kept the same tombstone while the segment was live.
C18_Witness ==
    /\ lastOp = Idle
    /\ cleaner.active
    /\ cleaner.next > firstRef(cleaner.segmentId)
    /\ log[cleaner.next - 1].type = "OBJTOMB"
    /\ log[cleaner.next - 1].segmentId \in cleaned
    /\ calls = <<>>
    /\ \E ref \in DOMAIN log :
          /\ ref < cleaner.next - 1
          /\ log[ref] = log[cleaner.next - 1]

\* ------------------------------------------------------------ SpecCleanerInside
\* The LogCleaner triggered inside a log.append of the worker (the comment
\* at lines 1026-1029 of storeData: "the LogCleaner could be triggered and
\* `o' could be reclaimed" by the append). One pass takes a full segment,
\* hands each entry to its callback and reclaims the segment.
RECURSIVE cleanSegment(_, _, _, _)
cleanSegment(S, freed, sid, ref) ==
    IF ref > lastRef(sid)
    THEN [S |-> S, calls |-> <<Call("clean", sid)>>]
    ELSE LET r == IF S.log[ref].type = "OBJ"
                  THEN objectEvictionCallback(S, ref)
                  ELSE tombstoneEvictionCallback(S, freed, ref)
             rest == cleanSegment(r.S, freed, sid, ref + 1)
         IN [S |-> rest.S, calls |-> r.calls \o rest.calls]

\* log.append with the cleaner running inside it on segment sid (sid < 0:
\* the cleaner does not run). A is [S, freed, ok, calls]; ok tells that
\* every segment taken so far was full and not yet reclaimed.
logAppend(A, sid, entry) ==
    LET takes == sid >= 0 /\ lastRef(sid) <= Len(A.S.log)
                          /\ sid \notin A.freed
        c == IF takes THEN cleanSegment(A.S, A.freed, sid, firstRef(sid))
             ELSE [S |-> A.S, calls |-> <<>>]
        L == appendCall(TracedLog(c.S.log), entry)
    IN [S |-> [c.S EXCEPT !.log = L.log],
        freed |-> IF takes THEN A.freed \cup {sid} ELSE A.freed,
        ok |-> A.ok /\ (sid < 0 \/ takes),
        calls |-> A.calls \o c.calls \o L.calls]

\* write through storeData (lines 1004-1039) with no reject rule; the
\* cleaner may run inside the append of the tombstone (c1) and inside the
\* append of the new object (c2).
WriteCleaning ==
    \E key \in RequestKeys, data \in CreateData,
       c1 \in -1..MaxSegments, c2 \in -1..MaxSegments :
        /\ Serving
        /\ ~cleaner.active
        /\ getTable(tablets, key[1], key[2]) # NULL
        /\ objectMap[key] = NULL => c1 < 0
        /\ LET t == getTable(tablets, key[1], key[2])
               oRef == objectMap[key]
               nv == storeDataVersion(log, oRef, tables[t])
               newObject == ObjectEntry(key[1], key[2], nv.version, data)
               A0 == [S |-> Master, freed |-> cleaned, ok |-> TRUE,
                      calls |-> <<>>]
               A1 == IF oRef # NULL
                     THEN logAppend(
                            [A0 EXCEPT !.S.log = logFree(@, oRef),
                                       !.calls = <<Call("free", oRef)>>],
                            c1, ObjectTombstone(getSegmentId(oRef),
                                                log[oRef]))
                     ELSE A0
               A2 == logAppend(A1, c2, newObject)
               objPtr == Len(A2.S.log)
               S2 == [A2.S EXCEPT
                        !.tables[t] = nv.table,
                        !.objectMap = storeDataPublish(@, key[1], key[2],
                                                       objPtr)]
           IN /\ A2.ok
              /\ objPtr <= MaxLog
              /\ Install(S2)
              /\ cleaned' = A2.freed
              /\ lastOp' = Response(Request("write", key[1], key[2], NoRules),
                                    S2, "OK", nv.version, NoData)
              /\ everMax' = [everMax EXCEPT ![key] = Max(@, nv.version)]
              /\ written' = [written EXCEPT ![key] =
                               [data |-> data, version |-> nv.version]]
              /\ calls' = Append(A2.calls, Call("replace", objPtr))
        /\ UNCHANGED <<removedMax, dropped, rj, componentVars, replayVars,
                       driverVars, completionVars, cleaner>>

\* remove (lines 676-697) with no reject rule on a key that holds an
\* object; the cleaner may run inside the append of the tombstone.
RemoveCleaning ==
    \E key \in RequestKeys, uninit \in UninitializedValues,
       c1 \in -1..MaxSegments :
        /\ Serving
        /\ ~cleaner.active
        /\ getTable(tablets, key[1], key[2]) # NULL
        /\ objectMap[key] # NULL
        /\ LET t == getTable(tablets, key[1], key[2])
               oRef == objectMap[key]
               o == log[oRef]
               A1 == logAppend(
                       [S |-> [Master EXCEPT
                                 !.tables[t] = removeRaise(@, o.version),
                                 !.log = logFree(@, oRef)],
                        freed |-> cleaned, ok |-> TRUE,
                        calls |-> <<Call("free", oRef)>>],
                       c1, ObjectTombstone(uninit, o))
               S2 == [A1.S EXCEPT !.objectMap[key] = NULL]
           IN /\ A1.ok
              /\ Len(S2.log) <= MaxLog
              /\ Install(S2)
              /\ cleaned' = A1.freed
              /\ lastOp' = Response(Request("remove", key[1], key[2],
                                            NoRules),
                                    S2, "OK", o.version, NoData)
              /\ removedMax' = [removedMax EXCEPT ![key] = Max(@, o.version)]
              /\ everMax' = [everMax EXCEPT ![key] = Max(@, o.version)]
              /\ written' = [written EXCEPT ![key] = NoWrite]
              /\ calls' = Append(A1.calls, Call("remove", A1.S.objectMap[key]))
        /\ UNCHANGED <<dropped, rj, componentVars, replayVars, driverVars,
                       completionVars, cleaner>>

\* recoverSegment, lines 576-623, for one replayed object of a key that has
\* no recovery tombstone: localObj is looked up first (line 585), the
\* cleaner may run inside the append of the replayed object (line 605),
\* and localObj is given to log.free afterwards (line 621).
ReplayCleaning ==
    \E key \in RequestKeys, version \in 1..MaxRuleVersion,
       c1 \in -1..MaxSegments :
        /\ Serving
        /\ ~cleaner.active
        /\ tombstoneMap[key] = NULL
        /\ LET recoverObj == ObjectEntry(key[1], key[2], version, "a")
               localObj == objectMap[key]
               A1 == logAppend([S |-> Master, freed |-> cleaned,
                                ok |-> TRUE, calls |-> <<>>],
                               c1, recoverObj)
               newObj == Len(A1.S.log)
               S2 == [A1.S EXCEPT
                        !.objectMap[key] = newObj,
                        !.log = IF localObj # NULL
                                THEN logFree(@, localObj) ELSE @]
           IN /\ version >= minSuccessorObject(Replay, localObj, NULL)
              /\ A1.ok
              /\ newObj <= MaxLog
              /\ Install(S2)
              /\ cleaned' = A1.freed
              /\ lastOp' = Response(Request("replay", key[1], key[2],
                                            NoRules),
                                    S2, "OK", version, NoData)
              /\ everMax' = [everMax EXCEPT ![key] = Max(@, version)]
              /\ written' = [written EXCEPT ![key] =
                               [data |-> "a", version |-> version]]
              /\ calls' = A1.calls \o <<Call("replace", newObj)>> \o
                          (IF localObj # NULL
                           THEN <<Call("free", localObj)>> ELSE <<>>)
        /\ UNCHANGED <<removedMax, dropped, rj, componentVars, replayVars,
                       driverVars, completionVars, cleaner>>

SpecCleanerInside ==
    Init /\ [][SetTablets \/ WriteCleaning \/ RemoveCleaning
               \/ ReplayCleaning \/ Reply]_vars

\* ------------------------------------------------------------ properties of SpecCleanerInside
\* The cleaner ran inside an append of the operation just completed.
CleanedInside == \E i \in DOMAIN calls : calls[i].call = "clean"

\* C35: once a write or a remove during whose Log.append the cleaner ran
\* has completed, every OBJ entry of the log that was not freed (and whose
\* segment was not reclaimed) is the entry the object index refers to for
\* its key: no un-freed copy of a superseded or removed object remains.
C35_NoUnfreedStaleCopy ==
    (lastOp.op \in {"write", "remove"} /\ lastOp.status = "OK"
        /\ CleanedInside) =>
    \A ref \in DOMAIN log :
        (log[ref].type = "OBJ" /\ ~log[ref].free
            /\ getSegmentId(ref) \notin cleaned) =>
        objectMap[<<log[ref].table, log[ref].id>>] = ref

\* C36: between operations every reference of the object index points to
\* an entry that was not freed and whose segment was not reclaimed, and no
\* log.free of the worker is given an entry of a segment reclaimed before
\* the call.
C36_NoUseOfReclaimedEntry ==
    /\ lastOp = Idle =>
         \A k \in Keys :
            objectMap[k] # NULL =>
                /\ ~log[objectMap[k]].free
                /\ getSegmentId(objectMap[k]) \notin cleaned
    /\ \A j \in DOMAIN calls :
         (calls[j].call = "free"
             /\ getSegmentId(calls[j].ref) \in cleaned) =>
         \E i \in DOMAIN calls :
            /\ i > j
            /\ calls[i] = Call("clean", getSegmentId(calls[j].ref))

\* ------------------------------------------------------------ SpecTables
\* setTablets with table ids beyond 32 bits and with a tablet that ends
\* below the largest key, then create and read. The table id 1 + Uint32Span
\* differs from the table id 1 only above the bits a uint32_t keeps.
SetTabletsWide ==
    \E newTablets \in
          { <<Tablet(1, 0, 1)>>,
            <<Tablet(1 + Uint32Span, 0, MaxObjectId)>>,
            <<Tablet(1, 0, MaxObjectId),
              Tablet(1 + Uint32Span, 0, MaxObjectId)>> } :
        /\ Serving
        /\ LET r == setTabletsOp(Master, newTablets)
           IN /\ tablets' = r.tablets
              /\ tables' = r.tables
              /\ dropped' = [k \in DOMAIN dropped |->
                                dropped[k] \/ k \in r.deleted]
        /\ lastOp' = Response(Request("setTablets", 0, 0, NoRules),
                              [Master EXCEPT !.tablets = tablets',
                                             !.tables = tables'],
                              "OK", 0, NoData)
        /\ UNCHANGED <<objectMap, log, everMax, removedMax, written, rj,
                       componentVars, replayVars, driverVars, completionVars,
                       cleanerVars, calls>>

\* read (lines 276-291) of an object of the table 1 + Uint32Span, under
\* which the hash table holds nothing: getTable throws or the lookup fails.
ReadWide ==
    \E id \in ObjectIds :
        /\ Serving
        /\ lastOp' = Response(
                Request("read", 1 + Uint32Span, id, NoRules), Master,
                IF getTable(tablets, 1 + Uint32Span, id) = NULL
                THEN "TableDoesntExist" ELSE "ObjectDoesntExist",
                0, NoData)
        /\ UNCHANGED <<masterVars, everMax, removedMax, dropped, written, rj,
                       componentVars, replayVars, driverVars, completionVars,
                       cleanerVars, calls>>

SpecTables ==
    Init /\ [][SetTablets \/ SetTabletsWide \/ Create \/ ReadWide
               \/ Reply]_vars

\* ------------------------------------------------------------ properties of SpecTables
\* The tablet holds the object id.
Holds(tablet, id) ==
    tablet.start_object_id <= id /\ id <= tablet.end_object_id

\* C37: after every step, setTablets included, each tablet refers to a
\* Table that was not deleted, tablets of the same table id refer to the
\* same Table, and a table that had a tablet before the step and has one
\* after it keeps its Table, whose next key and next version do not go back.
C37_SetTabletsKeepsTables ==
    [][/\ \A i \in DOMAIN tablets' :
            /\ tablets'[i].user_data # NULL
            /\ ~tables'[tablets'[i].user_data].deleted
       /\ \A i \in DOMAIN tablets', j \in DOMAIN tablets' :
            tablets'[i].table_id = tablets'[j].table_id =>
            tablets'[i].user_data = tablets'[j].user_data
       /\ \A i \in DOMAIN tablets, j \in DOMAIN tablets' :
            tablets[i].table_id = tablets'[j].table_id =>
            /\ tablets'[j].user_data = tablets[i].user_data
            /\ tables'[tablets'[j].user_data].nextKey >=
                   tables[tablets[i].user_data].nextKey
            /\ tables'[tablets'[j].user_data].nextVersion >=
                   tables[tablets[i].user_data].nextVersion]_vars

\* C39: an operation on a table id is served (gets past getTable) only if
\* a tablet has exactly that table id, and tablets of different table ids
\* never share a Table.
C39_TableIdsKeepAllBits ==
    /\ (lastOp.op \in {"read", "create"}
           /\ lastOp.status # "TableDoesntExist") =>
       \E i \in DOMAIN tablets : tablets[i].table_id = lastOp.table
    /\ \A i \in DOMAIN tablets, j \in DOMAIN tablets :
         tablets[i].table_id # tablets[j].table_id =>
         tablets[i].user_data # tablets[j].user_data

\* C40: create raises TableDoesntExist exactly when no tablet of the table
\* holds the id it allocates (the key the Table's allocator gives next).
C40_CreateResolvesAllocatedId ==
    lastOp.op = "create" =>
    /\ lastOp.status = "TableDoesntExist" =>
         \A i \in DOMAIN tablets :
            tablets[i].table_id = lastOp.table =>
            ~Holds(tablets[i],
                   AllocateKey(tables[tablets[i].user_data], objectMap).key)
    /\ lastOp.status # "TableDoesntExist" =>
         \E i \in DOMAIN tablets :
            /\ tablets[i].table_id = lastOp.table
            /\ Holds(tablets[i], lastOp.id)

\* ------------------------------------------------------------ SpecRecover
\* The RECOVER handler on a master that serves a tablet: recover is called
\* with a list of backups, fetches the filtered segments through at most
\* four tasks and replays each as its getRecoveryData RPC completes; the
\* handler then takes over the tablets. Clients read meanwhile.
Backup(segmentId, locator) ==
    [server_type |-> "BACKUP", has_segment_id |-> TRUE,
     segment_id |-> segmentId, service_locator |-> locator]

\* Segments n..1 on backup b1, up to one segment more than recover has
\* tasks; optionally a second backup b2 for segment 1;
\* a list with a MASTER and an entry without segment id among them;
\* and the empty list.
BackupLists ==
    {<<>>} \cup
    UNION { { [i \in 1..n |-> Backup(n + 1 - i, "b1")],
              [i \in 1..n |-> Backup(n + 1 - i, "b1")]
                  \o <<Backup(1, "b2")>> } : n \in 1..(TaskSlots + 1) }
    \cup { << [Backup(2, "b1") EXCEPT !.server_type = "MASTER"],
              Backup(1, "b1"),
              [Backup(0, "b2") EXCEPT !.has_segment_id = FALSE],
              Backup(1, "b1") >> }

\* The filtered segment a backup returns for a segment id: segment 1 holds an
\* object, segment 2 its tombstone, the others no record of the tablets.
SegmentData(segmentId) ==
    IF segmentId = 1 THEN <<ObjectEntry(1, 1, 5, "a")>>
    ELSE IF segmentId = 2
    THEN <<ObjectTombstone(0, ObjectEntry(1, 1, 7, "a"))>>
    ELSE <<>>

\* The tablets the RECOVER request names, and the tablet this master
\* serves when the request arrives, with the key of its one object.
RecoverTablets == <<Tablet(1, 0, MaxObjectId - 1)>>
ServedTablets == <<[Tablet(1, MaxObjectId, MaxObjectId) EXCEPT !.user_data = 1]>>
ServedKey == <<1, MaxObjectId>>
RecoveredKey == <<1, 1>>

RpcOutcomes == {"OK", "TransportException", "ClientException"}

\* The master serves one tablet holding one object, written once.
InitRecover ==
    /\ tablets = ServedTablets
    /\ tables = <<[NewTable(1) EXCEPT !.nextVersion = 2]>>
    /\ log = <<ObjectEntry(ServedKey[1], ServedKey[2], 1, "a")>>
    /\ objectMap = [k \in Keys |-> IF k = ServedKey THEN 1 ELSE NULL]
    /\ lastOp = Idle
    /\ everMax = [k \in Keys |-> 0]
    /\ removedMax = [k \in Keys |-> 0]
    /\ dropped = [k \in 0..(Uint32Span - 1) |-> FALSE]
    /\ written = [k \in Keys |-> NoWrite]
    /\ rj = NoCheck
    /\ NoReplay
    /\ backups \in BackupLists
    /\ chooser = [map |-> <<>>, ids |-> <<>>]
    /\ segIdsIt = 1
    /\ tasks = [slot \in 1..TaskSlots |-> NoTask]
    /\ activeSegments = 0
    /\ recoverPc = "idle"
    /\ fetched = [s \in SegmentIds |-> 0]
    /\ failure = NoTask
    /\ recoveryTablets = <<>>
    /\ coordinator = <<>>
    /\ synced = 0
    /\ NoCleaner
    /\ NoComponents

\* recover, lines 372-386: build the chooser and start the first RPCs.
StartRecover ==
    /\ recoverPc = "idle"
    /\ lastOp = Idle
    /\ recoveryTablets' = RecoverTablets
    /\ \E shuffle \in Permutations(1..scheduleLen(backups)) :
         LET ch == SegmentLocatorChooser(backups, shuffle)
             started == IF Len(ch.ids) < TaskSlots THEN Len(ch.ids)
                        ELSE TaskSlots
         IN \E locator \in [1..TaskSlots -> {"b1", "b2"}] :
              /\ \A slot \in 1..TaskSlots :
                    IF slot <= started
                    THEN locator[slot] \in chooserGet(ch, ch.ids[slot])
                    ELSE locator[slot] = "b1"
              /\ chooser' = ch
              /\ tasks' = startTasks(ch, locator)
              /\ segIdsIt' = started + 1
              /\ activeSegments' = started
    /\ recoverPc' = recoverFlow(recoverPc, FALSE)
    /\ UNCHANGED <<masterVars, ghostVars, rj, componentVars, replayVars, backups, fetched,
                   failure, coordinator, synced, cleanerVars, calls>>

\* recover, lines 391-425: the body of the polling loop for a task whose
\* RPC is ready, with the outcome of waiting on the RPC.
ProcessTask ==
    \E slot \in 1..TaskSlots, outcome \in RpcOutcomes :
        /\ recoverPc = "polling"
        /\ lastOp = Idle
        /\ activeSegments > 0
        /\ tasks[slot].present
        /\ fetched' = [fetched EXCEPT ![tasks[slot].segmentId] = @ + 1]
        /\ IF outcome # "OK"
           THEN \* lines 397-407: the exception leaves recover; its locals
                \* (tasks, chooser, tombstoneMap) are destroyed
                /\ thrown' = "SegmentRecoveryFailedException"
                /\ recoverPc' = recoverFlow(recoverPc, TRUE)
                /\ failure' = tasks[slot]
                /\ tasks' = [s \in 1..TaskSlots |-> NoTask]
                /\ tombstoneMap' = [k \in Keys |-> NULL]
                /\ UNCHANGED <<objectMap, log, tombHeap, segIdsIt,
                               activeSegments, calls>>
           ELSE LET R == recoverSegment(Replay,
                                        SegmentData(tasks[slot].segmentId), 1)
                IN /\ objectMap' = R.objectMap
                   /\ tombstoneMap' = R.tombstoneMap
                   /\ tombHeap' = R.tombHeap
                   /\ log' = R.log
                   /\ calls' = R.calls
                   /\ failure' = failure
                   /\ IF R.assert
                      THEN /\ thrown' = "assert"
                           /\ recoverPc' = "failed"
                           /\ UNCHANGED <<tasks, segIdsIt, activeSegments>>
                      ELSE IF segIdsIt > Len(chooser.ids)
                      THEN /\ tasks' = [tasks EXCEPT ![slot] = NoTask]
                           /\ activeSegments' =
                                  activeAfterTask(activeSegments, TRUE)
                           /\ UNCHANGED <<thrown, recoverPc, segIdsIt>>
                      ELSE LET segmentId == chooser.ids[segIdsIt]
                               locators == chooserGet(chooser, segmentId)
                           IN /\ segIdsIt' = segIdsIt + 1
                              /\ activeSegments' =
                                     activeAfterTask(activeSegments, FALSE)
                              /\ IF locators = {}
                                 THEN /\ thrown' =
                                           "SegmentRecoveryFailedException"
                                      /\ recoverPc' =
                                           recoverFlow(recoverPc, TRUE)
                                      /\ tasks' = [s \in 1..TaskSlots |->
                                                      NoTask]
                                 ELSE /\ \E l \in locators :
                                           tasks' = [tasks EXCEPT ![slot] =
                                                       Task(segmentId, l)]
                                      /\ UNCHANGED <<thrown, recoverPc>>
        /\ UNCHANGED <<tablets, tables, ghostVars, rj, componentVars, segment, segIt,
                       replayStart, backups, chooser, completionVars,
                       cleanerVars>>

\* recover, line 428: the polling loop has ended; log.sync() and return.
SyncLog ==
    /\ recoverPc = "polling"
    /\ lastOp = Idle
    /\ activeSegments = 0
    /\ synced' = Len(log)
    /\ recoverPc' = recoverFlow(recoverPc, FALSE)
    /\ UNCHANGED <<masterVars, ghostVars, rj, componentVars, replayVars, backups, chooser,
                   segIdsIt, tasks, activeSegments, fetched, failure,
                   recoveryTablets, coordinator, cleanerVars, calls>>

\* RECOVER handler, lines 467-469: free the recovery tombstones left in the
\* hash table and deallocate it.
CleanupTombstones ==
    /\ recoverPc = "synced"
    /\ tombHeap' = recoveryCleanup(tombstoneMap, tombHeap)
    /\ tombstoneMap' = [k \in Keys |-> NULL]
    /\ recoverPc' = recoverFlow(recoverPc, FALSE)
    /\ UNCHANGED <<masterVars, ghostVars, rj, componentVars, segment, segIt, replayStart,
                   thrown, backups, chooser, segIdsIt, tasks, activeSegments,
                   fetched, failure, completionVars, cleanerVars, calls>>

\* RECOVER handler, lines 477-484
RewriteTablets ==
    /\ recoverPc = "cleaned"
    /\ recoveryTablets' = rewriteTablets(recoveryTablets)
    /\ recoverPc' = recoverFlow(recoverPc, FALSE)
    /\ UNCHANGED <<masterVars, ghostVars, rj, componentVars, replayVars, backups, chooser,
                   segIdsIt, tasks, activeSegments, fetched, failure,
                   coordinator, synced, cleanerVars, calls>>

\* RECOVER handler, line 486: coordinator->tabletsRecovered(recoveryTablets)
TabletsRecovered ==
    /\ recoverPc = "rewritten"
    /\ coordinator' = Append(coordinator, recoveryTablets)
    /\ recoverPc' = recoverFlow(recoverPc, FALSE)
    /\ UNCHANGED <<masterVars, ghostVars, rj, componentVars, replayVars, backups, chooser,
                   segIdsIt, tasks, activeSegments, fetched, failure,
                   recoveryTablets, synced, cleanerVars, calls>>

\* RECOVER handler, lines 490-493: union the recovery tablets into the
\* tablet map and setTablets.
FinishRecover ==
    /\ recoverPc = "notified"
    /\ LET r == setTabletsOp(Master, tablets \o recoveryTablets)
       IN /\ tablets' = r.tablets
          /\ tables' = r.tables
    /\ recoverPc' = recoverFlow(recoverPc, FALSE)
    /\ UNCHANGED <<objectMap, log, ghostVars, rj, componentVars, replayVars, backups,
                   chooser, segIdsIt, tasks, activeSegments, fetched, failure,
                   completionVars, cleanerVars, calls>>

\* A client reads the object of the served tablet or a key of the tablets
\* under recovery.
RecoverRead ==
    \E key \in {ServedKey, RecoveredKey} :
        /\ Serving
        /\ LET req == Request("read", key[1], key[2], NoRules)
               r == readOp(Master, key[1], key[2], NoRules)
           IN /\ Install(r.S)
              /\ lastOp' = Response(req, r.S, r.status, r.version, r.value)
        /\ UNCHANGED <<everMax, removedMax, dropped, written, rj, componentVars,
                       replayVars, driverVars, completionVars, cleanerVars,
                       calls>>

NextRecover ==
    \/ StartRecover \/ ProcessTask \/ SyncLog \/ CleanupTombstones
    \/ RewriteTablets \/ TabletsRecovered \/ FinishRecover
    \/ RecoverRead \/ Reply

SpecRecover == InitRecover /\ [][NextRecover]_vars

\* The RECOVER handler on a master whose clients write: to the key of the
\* recovered tablet, before, during and after the recovery.
NextRecoverWrite ==
    \/ StartRecover \/ ProcessTask \/ SyncLog \/ CleanupTombstones
    \/ RewriteTablets \/ TabletsRecovered \/ FinishRecover
    \/ Write \/ Reply

SpecRecoverWrite == InitRecover /\ [][NextRecoverWrite]_vars

\* recover on its own, from its call to its return or its exception. The
\* polling loop runs until activeSegments is 0 and every RPC in flight
\* becomes ready at some time, so a task that can be processed is, and the
\* statement after the loop is reached once the loop has ended.
NextRecoverAlone == StartRecover \/ ProcessTask \/ SyncLog

SpecRecoverFair ==
    /\ InitRecover
    /\ [][NextRecoverAlone]_vars
    /\ WF_vars(ProcessTask)
    /\ WF_vars(SyncLog)

\* ------------------------------------------------------------ properties of SpecRecover
\* The locators the backup list names for a segment.
ListedFor(segmentId) ==
    {backups[i].service_locator :
        i \in {j \in DOMAIN backups :
                  /\ backups[j].has_segment_id
                  /\ backups[j].server_type = "BACKUP"
                  /\ backups[j].segment_id = segmentId}}

\* C10, as claimed: a recovery ends with SegmentRecoveryFailed after a failed
\* fetch only when no backup other than the failed one is listed for the
\* segment; with a second backup listed the segment is fetched again.
C10_FailsOnlyWithoutRemainingBackup ==
    (thrown = "SegmentRecoveryFailedException" /\ failure.present)
        => ListedFor(failure.segmentId) \ {failure.backupLocator} = {}

\* The last request was a read of this key.
ReadOf(key) == lastOp.op = "read" /\ <<lastOp.table, lastOp.id>> = key

\* C11: once a recovery has aborted with SegmentRecoveryFailedException, the
\* handler is left, tabletsRecovered was not called for the recovery, the
\* tablets are the ones the master served before, and a read of the served
\* tablet's object is answered with the object.
C11_AbortLeavesMasterServing ==
    thrown = "SegmentRecoveryFailedException" =>
        /\ recoverPc = "failed"
        /\ coordinator = <<>>
        /\ tablets = ServedTablets
        /\ ReadOf(ServedKey) =>
              /\ lastOp.status = "OK"
              /\ lastOp.version = log[objectMap[ServedKey]].version
              /\ lastOp.value = log[objectMap[ServedKey]].data

\* A read of the served object is answered after a segment was replayed and
\* the recovery then failed.
C11_Witness ==
    /\ thrown = "SegmentRecoveryFailedException"
    /\ Len(log) > 1
    /\ ReadOf(ServedKey)
    /\ lastOp.status = "OK"

\* C12, as claimed: when a recovery has failed with
\* SegmentRecoveryFailedException, every tombstone copied to the heap has
\* been freed and the recovery-tombstone index holds nothing.
C12_AbortFreesHeapTombstones ==
    thrown = "SegmentRecoveryFailedException" =>
        /\ \A a \in DOMAIN tombHeap : tombHeap[a].freed
        /\ \A k \in Keys : tombstoneMap[k] = NULL

\* Every segment of the schedule was fetched and replayed.
AllReplayed ==
    /\ thrown = "none"
    /\ activeSegments = 0
    /\ \A i \in DOMAIN chooser.ids : fetched[chooser.ids[i]] >= 1

\* This master owns the tablet.
OwnedHere(tablet) ==
    tablet.service_locator = localLocator /\ tablet.server_id = serverId

\* The tablets serve the key.
Serves(key) == getTable(tablets, key[1], key[2]) # NULL

\* C13: in a recovery, log.sync has returned only after every segment of
\* the schedule was replayed; the recovery tablets name this server's
\* locator and id only after the sync; tabletsRecovered is called once,
\* with the rewritten tablets; the recovered tablets are in the tablet map
\* only after that call; and until they are, a read of a key of theirs is
\* refused with TableDoesntExist.
C13_CompletionOrder ==
    /\ synced # 0 => AllReplayed /\ synced = Len(log)
    /\ (\E i \in DOMAIN recoveryTablets : OwnedHere(recoveryTablets[i]))
           => synced # 0
    /\ coordinator # <<>> =>
           /\ Len(coordinator) = 1
           /\ Len(coordinator[1]) = Len(RecoverTablets)
           /\ \A i \in DOMAIN RecoverTablets :
                 /\ OwnedHere(coordinator[1][i])
                 /\ coordinator[1][i].table_id = RecoverTablets[i].table_id
                 /\ coordinator[1][i].start_object_id
                        = RecoverTablets[i].start_object_id
                 /\ coordinator[1][i].end_object_id
                        = RecoverTablets[i].end_object_id
    /\ Serves(RecoveredKey) <=> recoverPc = "done"
    /\ recoverPc = "done" => coordinator # <<>>
    /\ (ReadOf(RecoveredKey) /\ recoverPc # "done")
           => lastOp.status = "TableDoesntExist"

\* A read of a recovered key is answered once a recovery that replayed
\* an object is complete.
C13_Witness ==
    /\ recoverPc = "done"
    /\ ReadOf(RecoveredKey)
    /\ lastOp.status # "TableDoesntExist"
    /\ Len(log) > 1

\* The segment ids of the chooser's schedule.
Schedule == {chooser.ids[i] : i \in DOMAIN chooser.ids}

\* C31: in a recovery whose fetches all succeed, no segment is fetched and
\* replayed twice, none outside the schedule is fetched, a segment in
\* flight was not fetched before, and once the polling loop has ended
\* (Log.sync is called next) every segment of the schedule was fetched and
\* replayed exactly once, whatever the order in which the RPCs became
\* ready and however many segments there are.
C31_EachSegmentReplayedOnce ==
    (thrown = "none" /\ recoverPc # "idle") =>
        /\ \A s \in SegmentIds :
               /\ fetched[s] <= 1
               /\ fetched[s] = 1 => s \in Schedule
        /\ \A slot \in 1..TaskSlots :
               tasks[slot].present => fetched[tasks[slot].segmentId] = 0
        /\ (recoverPc # "polling" \/ synced # 0) =>
               \A s \in Schedule : fetched[s] = 1

\* Five segments, one more than there are tasks, were each replayed once
\* and the log was synced.
C31_Witness ==
    /\ recoverPc = "synced"
    /\ thrown = "none"
    /\ Cardinality(Schedule) = TaskSlots + 1
    /\ \A s \in Schedule : fetched[s] = 1
    /\ synced = Len(log)

\* C32: when every RPC in flight becomes ready at some time, the polling
\* loop ends: activeSegments reaches 0 and recover returns after log.sync,
\* or recover throws; also for an empty backup list.
C32_PollingLoopTerminates ==
    (recoverPc = "polling") ~>
        ((recoverPc = "synced" /\ activeSegments = 0) \/ thrown # "none")

\* recover has returned for an empty backup list: no task was started.
C32_Witness ==
    /\ backups = <<>>
    /\ recoverPc = "synced"
    /\ activeSegments = 0
    /\ \A s \in SegmentIds : fetched[s] = 0

\* The records of a key in the segments that were replayed.
ReplayedRecords(key) ==
    UNION {{SegmentData(s)[i] : i \in DOMAIN SegmentData(s)} :
              s \in {x \in SegmentIds : fetched[x] >= 1}}
    \cap {rec \in UNION {{SegmentData(s)[i] : i \in DOMAIN SegmentData(s)} :
                            s \in SegmentIds} :
              <<rec.table, rec.id>> = key}

\* C34: after a successful recovery whose newest replayed record of a key
\* was a tombstone of version v, the first accepted write or create that
\* stores an object under the key gets a version greater than v.
C34_WriteExceedsRecoveredTombstone ==
    \A rec \in ReplayedRecords(RecoveredKey) :
        ( /\ recoverPc = "done" /\ thrown = "none"
          /\ rec.type = "OBJTOMB"
          /\ \A other \in ReplayedRecords(RecoveredKey) :
                 other.version <= rec.version
          /\ Stored(lastOp)
          /\ <<lastOp.table, lastOp.id>> = RecoveredKey
          /\ lastOp.prevMax = 0 )
        => lastOp.version > rec.version

\* The task slots that hold a getRecoveryData RPC.
Occupied == {slot \in 1..TaskSlots : tasks[slot].present}

\* C30: while recover runs, at most 4 getRecoveryData RPCs are in flight, no
\* two of them are for the same segment id, and activeSegments is the number
\* of occupied task slots.
C30_TaskWindow ==
    recoverPc # "failed" =>
        /\ Cardinality(Occupied) <= 4
        /\ \A a, b \in Occupied :
               tasks[a].segmentId = tasks[b].segmentId => a = b
        /\ activeSegments = Cardinality(Occupied)

\* All four slots are busy after a finished task's slot was given the fifth
\* segment of the schedule.
C30_Witness ==
    /\ recoverPc = "polling"
    /\ Cardinality(Occupied) = 4
    /\ activeSegments = 4
    /\ segIdsIt = 6
    /\ \E s \in SegmentIds : fetched[s] = 1

\* ------------------------------------------------------------ properties of SpecReject
\* The reject-rule table: <<condition, outcome>> rows, the first row whose
\* condition holds gives the outcome.
RuleTable(rules, currentVersion) ==
    << <<currentVersion = VERSION_NONEXISTENT /\ rules.doesntExist,
         "ObjectDoesntExist">>,
       <<currentVersion = VERSION_NONEXISTENT, "OK">>,
       <<rules.exists, "ObjectExists">>,
       <<rules.versionLeGiven /\ currentVersion <= rules.givenVersion,
         "WrongVersion">>,
       <<rules.versionNeGiven /\ currentVersion # rules.givenVersion,
         "WrongVersion">>,
       <<TRUE, "OK">> >>

FirstMatch(rows) == rows[MinOf({i \in DOMAIN rows : rows[i][1]})][2]

\* C5: for every combination of the rule flags, every givenVersion and every
\* currentVersion, rejectOperation gives the outcome of the first matching
\* row of the reject-rule table.
C5_RejectFollowsRuleTable ==
    rj.result # "none"
        => rj.result = FirstMatch(RuleTable(rj.rules, rj.version))

\* C5 witness: a rejection decided by the versionLeGiven row at equality,
\* with no earlier row matching.
C5_Witness ==
    /\ rj.result = "WrongVersion"
    /\ rj.rules.versionLeGiven /\ ~rj.rules.versionNeGiven
    /\ rj.version = rj.rules.givenVersion

\* ------------------------------------------------------------ SpecChooser
\* A SegmentLocatorChooser on its own: built from a list of servers, then
\* asked for locators and told of locators that are down, in any order.
ChooserListLen == 3
ChooserSegments == {1, 2}
ChooserLocators == {"b1", "b2"}

\* The entries of ProtoBuf::ServerList: backups and masters with a segment
\* id, and backups without one (segment_id reads as 0).
ChooserEntries ==
    {Backup(s, l) : s \in ChooserSegments, l \in ChooserLocators}
    \cup {[Backup(s, "b2") EXCEPT !.server_type = "MASTER"] :
              s \in ChooserSegments}
    \cup {[Backup(0, "b1") EXCEPT !.has_segment_id = FALSE]}

ChooserLists ==
    UNION {[1..n -> ChooserEntries] : n \in 0..ChooserListLen}

InitChooser ==
    /\ InitMaster
    /\ rj = NoCheck
    /\ NoReplay
    /\ backups \in ChooserLists
    /\ \E shuffle \in Permutations(1..scheduleLen(backups)) :
           chooser = SegmentLocatorChooser(backups, shuffle)
    /\ segIdsIt = 1
    /\ tasks = [slot \in 1..TaskSlots |-> NoTask]
    /\ activeSegments = 0
    /\ recoverPc = "idle"
    /\ fetched = [s \in SegmentIds |-> 0]
    /\ failure = NoTask
    /\ recoveryTablets = <<>>
    /\ coordinator = <<>>
    /\ synced = 0
    /\ NoCleaner
    /\ NoComponents

\* chooser.get(segmentId): one of the segment's entries, or the exception.
ChooserGet ==
    \E segmentId \in ChooserSegments :
        /\ IF chooserGet(chooser, segmentId) = {}
           THEN got' = [called |-> TRUE, segmentId |-> segmentId,
                        locator |-> "", threw |-> TRUE]
           ELSE \E locator \in chooserGet(chooser, segmentId) :
                    got' = [called |-> TRUE, segmentId |-> segmentId,
                            locator |-> locator, threw |-> FALSE]
        /\ UNCHANGED <<masterVars, ghostVars, rj, replayVars, driverVars,
                       completionVars, cleanerVars, calls, downed, monitor,
                       serverList, tracker, callers>>

\* chooser.markAsDown(segmentId, locator); got then tells of the gets made
\* after this call.
ChooserMarkAsDown ==
    \E segmentId \in ChooserSegments, locator \in ChooserLocators :
        /\ chooser' = markAsDown(chooser, segmentId, locator)
        /\ downed' = downed \cup {<<segmentId, locator>>}
        /\ got' = NoGet
        /\ UNCHANGED <<masterVars, ghostVars, rj, replayVars, backups,
                       segIdsIt, tasks, activeSegments, recoverPc, fetched,
                       failure, completionVars, cleanerVars, calls, monitor,
                       serverList, tracker, callers>>

NextChooser == ChooserGet \/ ChooserMarkAsDown

SpecChooser == InitChooser /\ [][NextChooser]_vars

\* ------------------------------------------------------------ properties of SpecChooser
\* The locators the backup list names for a segment id, in BACKUP entries
\* that carry a segment id.
Listed(segmentId) ==
    {backups[i].service_locator :
        i \in {j \in DOMAIN backups :
                  /\ backups[j].server_type = "BACKUP"
                  /\ backups[j].has_segment_id
                  /\ backups[j].segment_id = segmentId}}

\* The locators markAsDown was called with for a segment id.
Down(segmentId) ==
    {locator \in ChooserLocators : <<segmentId, locator>> \in downed}

\* C24: after any sequence of get and markAsDown calls, get(segmentId)
\* returns a locator the backup list names for that segment id and
\* markAsDown has not removed, and it throws SegmentRecoveryFailed exactly
\* when no such locator remains.
C24_GetReturnsRemainingLocator ==
    got.called =>
        /\ got.threw <=> Listed(got.segmentId) \ Down(got.segmentId) = {}
        /\ ~got.threw =>
               got.locator \in Listed(got.segmentId) \ Down(got.segmentId)

\* C25: after markAsDown(segmentId, locator) no later get(segmentId) returns
\* that locator, also when the list names the pair more than once.
C25_NoGetOfDownedLocator ==
    (got.called /\ ~got.threw) =>
        <<got.segmentId, got.locator>> \notin downed

\* C26: the schedule holds every segment id that a BACKUP entry with a
\* segment id names, exactly once, and no other id; MASTER entries and
\* entries without a segment id add neither a schedule entry nor a locator.
C26_ScheduleIsListedIdsOnce ==
    /\ \A s \in ChooserSegments \cup {0} :
           Cardinality({i \in DOMAIN chooser.ids : chooser.ids[i] = s})
               = IF Listed(s) = {} THEN 0 ELSE 1
    /\ \A i \in DOMAIN chooser.ids : chooser.ids[i] \in ChooserSegments \cup {0}
    /\ \A j \in DOMAIN chooser.map :
           chooser.map[j][2] \in Listed(chooser.map[j][1])

\* A list that names segment 1 twice on backups, segment 2 on a master only
\* and has an entry without segment id: the schedule is segment 1 alone.
C26_Witness ==
    /\ backups = << Backup(1, "b1"),
                    [Backup(2, "b2") EXCEPT !.server_type = "MASTER"],
                    Backup(1, "b2") >>
    /\ chooser.ids = <<1>>
    /\ Len(chooser.map) = 2
    /\ got.called /\ got.segmentId = 2 /\ got.threw

\* ------------------------------------------------------------ SpecMonitor
\* A BackupFailureMonitor that is started and halted in any order.

\* BackupFailureMonitor::start that starts a thread on every call.
start_Again(m) ==
    [m EXCEPT !.running = TRUE, !.thread = TRUE, !.threads = @ + 1]

\* BackupFailureMonitor::start: nothing if running, else the monitor runs
\* and its thread is constructed.
start(m) ==
    IF m.running THEN m
    ELSE [m EXCEPT !.running = TRUE, !.thread = TRUE, !.threads = @ + 1]

\* BackupFailureMonitor::halt: nothing if not running, else the thread is
\* told to exit, joined and destroyed.
halt(m) ==
    IF ~m.running THEN m
    ELSE [m EXCEPT !.running = FALSE, !.thread = FALSE, !.threads = @ - 1]

\* The calls of TEST_F(BackupFailureMonitorTest, startAndHalt), in order.
startAndHalt == <<"start", "start", "halt", "halt", "start">>

MonitorStart ==
    /\ Len(monitor.calls) < MaxCalls
    /\ monitor' = [start(monitor) EXCEPT !.calls = Append(@, "start")]
    /\ UNCHANGED <<masterVars, ghostVars, rj, replayVars, driverVars,
                   completionVars, cleanerVars, calls, got, downed,
                   serverList, tracker, callers>>

MonitorHalt ==
    /\ Len(monitor.calls) < MaxCalls
    /\ monitor' = [halt(monitor) EXCEPT !.calls = Append(@, "halt")]
    /\ UNCHANGED <<masterVars, ghostVars, rj, replayVars, driverVars,
                   completionVars, cleanerVars, calls, got, downed,
                   serverList, tracker, callers>>

NextMonitor == MonitorStart \/ MonitorHalt

SpecMonitor == Init /\ [][NextMonitor]_vars

NoServer == [present |-> FALSE, serverId |-> 0, status |-> "none",
             session |-> "NULL"]
ServerDetails(n, status) ==
    [present |-> TRUE, serverId |-> n, status |-> status, session |-> "NULL"]

\* tracker.enqueueChange(server, event)
enqueueChange(changes, server, event) ==
    Append(changes, [server |-> server, event |-> event])

\* registerTracker, lines 226-235: the loop over the crashed servers, from
\* slot n on.
RECURSIVE pushCrashed(_, _, _)
pushCrashed(slots, n, changes) ==
    IF n > Len(slots) THEN changes
    ELSE IF ~slots[n].present \/ slots[n].status # "CRASHED"
    THEN pushCrashed(slots, n + 1, changes)
    ELSE pushCrashed(slots, n + 1,
            enqueueChange(
                enqueueChange(changes, [slots[n] EXCEPT !.status = "UP"],
                              "SERVER_ADDED"),
                slots[n], "SERVER_CRASHED"))

\* registerTracker, lines 238-243: the loop over the servers that are up.
RECURSIVE pushUp(_, _, _)
pushUp(slots, n, changes) ==
    IF n > Len(slots) THEN changes
    ELSE IF ~slots[n].present \/ slots[n].status # "UP"
    THEN pushUp(slots, n + 1, changes)
    ELSE pushUp(slots, n + 1,
                enqueueChange(changes, slots[n], "SERVER_ADDED"))

\* A single loop that pushes each server's events as it meets the server.
RECURSIVE pushInSlotOrder(_, _, _)
pushInSlotOrder(slots, n, changes) ==
    IF n > Len(slots) THEN changes
    ELSE IF ~slots[n].present \/ slots[n].status \notin {"UP", "CRASHED"}
    THEN pushInSlotOrder(slots, n + 1, changes)
    ELSE IF slots[n].status = "UP"
    THEN pushInSlotOrder(slots, n + 1,
                         enqueueChange(changes, slots[n], "SERVER_ADDED"))
    ELSE pushInSlotOrder(slots, n + 1,
            enqueueChange(
                enqueueChange(changes, [slots[n] EXCEPT !.status = "UP"],
                              "SERVER_ADDED"),
                slots[n], "SERVER_CRASHED"))

\* registerTracker with one loop over the slots.
registerTracker_OneLoop(L, T, id) ==
    IF L.isBeingDestroyed \/ \E i \in DOMAIN L.trackers : L.trackers[i] = id
    THEN [serverList |-> L, tracker |-> [T EXCEPT !.threw = TRUE]]
    ELSE LET changes == pushInSlotOrder(L.slots, 1, T.changes)
         IN [serverList |-> [L EXCEPT !.trackers = Append(@, id)],
             tracker |-> [T EXCEPT !.parent = TRUE,
                                   !.changes = changes,
                                   !.fired = Append(@, Len(changes))]]

\* AbstractServerList::registerTracker for the tracker T, whose address is
\* id: ServerListException if the list is being destroyed or the tracker is
\* registered; else the tracker joins trackers, gets the list as parent,
\* the events of the crashed servers, then those of the servers that are up,
\* and its callback is fired.
registerTracker(L, T, id) ==
    IF L.isBeingDestroyed \/ \E i \in DOMAIN L.trackers : L.trackers[i] = id
    THEN [serverList |-> L, tracker |-> [T EXCEPT !.threw = TRUE]]
    ELSE LET changes == pushUp(L.slots, 1,
                               pushCrashed(L.slots, 1, T.changes))
         IN [serverList |-> [L EXCEPT !.trackers = Append(@, id)],
             tracker |-> [T EXCEPT !.parent = TRUE,
                                   !.changes = changes,
                                   !.fired = Append(@, Len(changes))]]

\* The slots of a server list: slot n is empty or holds server n, which is
\* up, crashed or down.
ServerSlots ==
    UNION {{slots \in [1..n -> {NoServer}
                                 \cup {ServerDetails(i, st) : i \in 1..n,
                                         st \in {"UP", "CRASHED", "DOWN"}}] :
               \A i \in 1..n : slots[i].present => slots[i].serverId = i} :
           n \in 0..MaxServers}

InitServerList ==
    /\ InitMaster
    /\ rj = NoCheck
    /\ NoReplay
    /\ NoRecover
    /\ NoCleaner
    /\ got = NoGet
    /\ downed = {}
    /\ monitor = [running |-> FALSE, thread |-> FALSE, threads |-> 0,
                  calls |-> <<>>]
    /\ serverList \in [slots : ServerSlots,
                       trackers : {<<>>, <<"other">>},
                       isBeingDestroyed : BOOLEAN]
    /\ tracker = [changes |-> <<>>, fired |-> <<>>, parent |-> FALSE,
                  threw |-> FALSE]
    /\ callers = NoCallers

\* serverList.registerTracker(tracker), until a call throws.
RegisterTracker ==
    /\ ~tracker.threw
    /\ LET r == registerTracker(serverList, tracker, "tracker")
       IN /\ serverList' = r.serverList
          /\ tracker' = r.tracker
    /\ UNCHANGED <<masterVars, ghostVars, rj, replayVars, driverVars,
                   completionVars, cleanerVars, calls, got, downed,
                   monitor, callers>>

NextServerList == RegisterTracker

SpecServerList == InitServerList /\ [][NextServerList]_vars

\* ------------------------------------------------------------ properties of SpecServerList
\* The ids of the servers of the list that have a status.
WithStatus(status) ==
    {n \in DOMAIN serverList.slots :
        serverList.slots[n].present /\ serverList.slots[n].status = status}

\* The positions of the tracker's queue that hold an event of a server.
EventsOf(n) ==
    {i \in DOMAIN tracker.changes : tracker.changes[i].server.serverId = n}

\* C28: a registered tracker was sent, for every CRASHED server, SERVER_ADDED
\* immediately followed by SERVER_CRASHED, all of them before the
\* SERVER_ADDED of any UP server; one SERVER_ADDED per UP server and
\* nothing else; and its callback was fired once, after the last event.
C28_CrashedBeforeUp ==
    tracker.parent =>
        /\ \A c \in WithStatus("CRASHED") :
               /\ Cardinality(EventsOf(c)) = 2
               /\ \E i \in EventsOf(c) :
                      /\ tracker.changes[i].event = "SERVER_ADDED"
                      /\ i + 1 \in EventsOf(c)
                      /\ tracker.changes[i + 1].event = "SERVER_CRASHED"
        /\ \A u \in WithStatus("UP") :
               /\ Cardinality(EventsOf(u)) = 1
               /\ \A i \in EventsOf(u) :
                      tracker.changes[i].event = "SERVER_ADDED"
        /\ \A c \in WithStatus("CRASHED"), u \in WithStatus("UP") :
               \A i \in EventsOf(c), j \in EventsOf(u) : i < j
        /\ \A i \in DOMAIN tracker.changes :
               tracker.changes[i].server.serverId
                   \in WithStatus("CRASHED") \cup WithStatus("UP")
        /\ tracker.fired = <<Len(tracker.changes)>>

\* Server 1 is up and server 2 crashed: the tracker has the add and the
\* crash of server 2 before the add of server 1.
C28_Witness ==
    /\ tracker.parent
    /\ serverList.slots = <<ServerDetails(1, "UP"),
                            ServerDetails(2, "CRASHED")>>
    /\ tracker.changes =
         << [server |-> ServerDetails(2, "UP"), event |-> "SERVER_ADDED"],
            [server |-> ServerDetails(2, "CRASHED"),
             event |-> "SERVER_CRASHED"],
            [server |-> ServerDetails(1, "UP"), event |-> "SERVER_ADDED"] >>
    /\ tracker.fired = <<3>>

\* ------------------------------------------------------------ SpecSessions
\* Threads inside getSession(id) at the same time. A session is named by
\* the thread that opened it. Each section under the mutex is one step.

\* getSession storing a new session whatever the entry holds.
cacheSession_Overwrite(details, session) ==
    [details EXCEPT !.session = session]

\* getSession, lines 154-155: the entry after the new session was offered
cacheSession(details, session) ==
    IF details.session = "NULL"
    THEN [details EXCEPT !.session = session]
    ELSE details

\* getSession, lines 107-115: the first section under the mutex
GetSessionLookup ==
    \E t \in Callers :
        /\ callers[t].pc = "start"
        /\ LET id == callers[t].id
               found == id \in DOMAIN serverList.slots
                           /\ serverList.slots[id].present
                           /\ serverList.slots[id].serverId = id
           IN callers' =
                IF ~found
                THEN [callers EXCEPT ![t].pc = "done",
                                     ![t].result = "FailSession"]
                ELSE IF serverList.slots[id].session # "NULL"
                THEN [callers EXCEPT
                        ![t].pc = "done",
                        ![t].result = serverList.slots[id].session]
                ELSE [callers EXCEPT ![t].pc = "opening"]
        /\ UNCHANGED <<masterVars, ghostVars, rj, replayVars, driverVars,
                       completionVars, cleanerVars, calls, got, downed,
                       monitor, serverList, tracker>>

\* getSession, lines 119-139: the session is opened without the mutex and
\* the server behind it is asked for its id; actualId is its answer (0: a
\* TransportException). The locator is read through a pointer taken under
\* the mutex, so if the entry was deleted meanwhile the session may lead to
\* any server: every answer is possible in either case.
GetSessionOpen ==
    \E t \in Callers, actualId \in 0..MaxServers :
        /\ callers[t].pc = "opening"
        /\ callers' =
             IF actualId # callers[t].id
             THEN [callers EXCEPT ![t].pc = "done", ![t].opened = t,
                                  ![t].actualId = actualId,
                                  ![t].result = "FailSession"]
             ELSE [callers EXCEPT ![t].pc = "opened", ![t].opened = t,
                                  ![t].actualId = actualId]
        /\ UNCHANGED <<masterVars, ghostVars, rj, replayVars, driverVars,
                       completionVars, cleanerVars, calls, got, downed,
                       monitor, serverList, tracker>>

\* getSession, lines 149-157: the second section under the mutex
GetSessionStore ==
    \E t \in Callers :
        /\ callers[t].pc = "opened"
        /\ LET id == callers[t].id
               found == id \in DOMAIN serverList.slots
                           /\ serverList.slots[id].present
                           /\ serverList.slots[id].serverId = id
               details == cacheSession(serverList.slots[id],
                                       callers[t].opened)
           IN IF ~found
              THEN /\ callers' = [callers EXCEPT
                                    ![t].pc = "done",
                                    ![t].result = "FailSession"]
                   /\ UNCHANGED serverList
              ELSE /\ serverList' = [serverList EXCEPT !.slots[id] = details]
                   /\ callers' = [callers EXCEPT
                                    ![t].pc = "done",
                                    ![t].result = details.session]
        /\ UNCHANGED <<masterVars, ghostVars, rj, replayVars, driverVars,
                       completionVars, cleanerVars, calls, got, downed,
                       monitor, tracker>>

\* "a server could be deleted while a session is being opened for it"
\* (lines 104-105): the entry of a server leaves the list with its session.
RemoveServer ==
    \E n \in DOMAIN serverList.slots :
        /\ serverList.slots[n].present
        /\ \E t \in Callers : callers[t].pc # "done"
        /\ serverList' = [serverList EXCEPT !.slots[n] = NoServer]
        /\ UNCHANGED <<masterVars, ghostVars, rj, replayVars, driverVars,
                       completionVars, cleanerVars, calls, got, downed,
                       monitor, tracker, callers>>

SpecSessions ==
    InitServerList /\ [][GetSessionLookup \/ GetSessionOpen
                         \/ GetSessionStore \/ RemoveServer]_vars

\* ------------------------------------------------------------ properties of SpecSessions
\* iget(id) finds the server.
igetFinds(slots, id) ==
    id \in DOMAIN slots /\ slots[id].present /\ slots[id].serverId = id

\* C38: a step of getSession never replaces a session that is cached; a
\* call that returns a session returns the one cached for id when it
\* returns; a call that finds id absent at its first or second lookup, or
\* whose verification got another id or no answer, returns the FailSession
\* and caches nothing; only a session whose verification got id is cached;
\* and while id stays in the list the session a call returned stays the
\* cached one.
C38_GetSessionCachesOnce ==
    [][/\ \A n \in DOMAIN serverList.slots :
            (serverList.slots[n].session # "NULL"
                /\ serverList'.slots[n].present) =>
            serverList'.slots[n].session = serverList.slots[n].session
       /\ \A n \in DOMAIN serverList'.slots :
            serverList'.slots[n].session \in Callers =>
            callers'[serverList'.slots[n].session].actualId = n
       /\ \A t \in Callers :
            (callers[t].pc # "done" /\ callers'[t].pc = "done") =>
            /\ callers'[t].result # "FailSession" =>
                 /\ igetFinds(serverList'.slots, callers[t].id)
                 /\ serverList'.slots[callers[t].id].session =
                        callers'[t].result
            /\ (~igetFinds(serverList.slots, callers[t].id)
                   \/ (callers[t].pc = "opening"
                          /\ callers'[t].actualId # callers[t].id)) =>
                 /\ callers'[t].result = "FailSession"
                 /\ serverList' = serverList
       /\ \A t \in Callers :
            (callers'[t].pc = "done" /\ callers'[t].result # "FailSession"
                /\ igetFinds(serverList'.slots, callers'[t].id)) =>
            serverList'.slots[callers'[t].id].session = callers'[t].result]_vars

\* Both threads found no session and opened one each; t1 cached its
\* session, and t2, whose verification passed too, returned t1's.
C38_Witness ==
    /\ callers["t1"].pc = "done" /\ callers["t2"].pc = "done"
    /\ callers["t1"].result = "t1" /\ callers["t2"].result = "t1"
    /\ callers["t2"].opened = "t2"
    /\ callers["t2"].actualId = 1
    /\ serverList.slots[1].session = "t1"

====
